---- MODULE Spec2Model ----
(***************************************************************************)
(* Model of the copilot server's agent orchestration (ClaraAgent.runAgent  *)
(* with its input guardrail), of conversation creation in                  *)
(* ConversationRepository / ConversationService, and of the message        *)
(* writer MessageRepository.createWithConversationUpdate.                  *)
(*                                                                         *)
(* Text is modelled as a sequence of tokens, so that concatenation,        *)
(* emptiness and equality of strings are those of sequences.               *)
(***************************************************************************)
EXTENDS Integers, Sequences, FiniteSets, TLC

VARIABLES
    pc,          \* per turn: position of runAgent
    guard,       \* per turn: state of the input guardrail of the run
    guardOut,    \* per turn: the guardrail's output (outputInfo.guidance)
    gen,         \* per turn: number of main generation runs started
    fault,       \* per turn: exception pending in the run ("none" if none)
    events,      \* per turn: the stream events consumed so far, in order
    fullText,    \* text buffers, by buffer slot
    toolsUsed,   \* tool-name lists, by buffer slot
    callbacks,   \* per turn: the callbacks invoked so far, in order
    response,    \* per turn: the value runAgent returned
    runCalls,    \* per turn: number of calls of run(this.agent, ...)
    finalOutput, \* per turn: stream.finalOutput once the stream has completed
    convs,       \* conversation table: sequence of rows
    req,         \* per request: the conversation-creation request in flight
    msgs,        \* message table (committed rows)
    convUpdatedAt, \* committed updatedAt of the conversation, 0 if no row
    clock,       \* the database server's clock
    tx,          \* per writer: state of its message write
    toolCalls,   \* tool-call table: sequence of rows, the id is the index
    upd,         \* per updater: the updateToolCall call in flight
    now,         \* the clock read by new Date() and Date.now()
    stored,      \* message rows of one conversation, in insertion order
    history,     \* the list buildHistory returned since the last write, if any
    call,        \* the chat request in flight or last served, with its outcome
    contexts,    \* context entries of one conversation, in creation order
    ups,         \* per caller: the upsertByType call in flight
    imageFiles,  \* number of ImageFile rows of one conversation
    imageMessages, \* the conversation's IMAGE messages, oldest first: attachment lists
    resolved,    \* the last resolution of the conversation's recent images, if any
    signed,      \* the last call of getPresignedUrlForKey, if any
    voiceSession, \* the voice agent's RealtimeVoiceSession: session object, connected
    voiceContext, \* the voice agent's context (conversation and user), if set
    transcripts, \* the transcript events the voice session delivered, in order
    voiceTurns,  \* the orchestrator turns the voice agent started, in order
    spoken,      \* the texts pushed into the voice session to be spoken
    voiceSessions, \* the voice controller's session store, for one session id
    stopResponses, \* the responses of the stop requests for that session id
    aiReqs,      \* per request: a handler that generates and persists an AI response
    aiMessages, \* number of AI messages persisted by those handlers
    uploads, \* per request: the position and outcome of an image upload
    summarized, \* the last call of summarizeImageUrl, with its result
    renormalized, \* the result of normalizing that result once more, if done
    sse, \* the chat stream of turn 1: position, heartbeat timer, events written by the handler
    claraInstance, \* the module-level singleton (0 for null, else the instance)
    inits, \* per instance created, how its init() ended
    getCalls, \* the calls of getClaraAgent
    apiKey, \* whether OPENAI_API_KEY is set
    shutting \* a shutdownClaraAgent awaits dispose()

agentVars == <<pc, guard, guardOut, gen, fault, events, fullText, toolsUsed,
               callbacks, response, runCalls, finalOutput>>
convVars == <<convs, req>>
msgVars == <<msgs, convUpdatedAt, clock, tx>>
toolVars == <<toolCalls, upd, now>>
histVars == <<stored, history>>
entryVars == <<call>>
ctxVars == <<contexts, ups>>
imgVars == <<imageFiles, imageMessages, resolved, signed>>
voiceVars == <<voiceSession, voiceContext, transcripts, voiceTurns, spoken,
               voiceSessions, stopResponses>>
persistVars == <<aiReqs, aiMessages>>
uploadVars == <<uploads>>
summaryVars == <<summarized, renormalized>>
streamVars == <<sse>>
singletonVars == <<claraInstance, inits, getCalls, apiKey, shutting>>
svcVars == <<imgVars, voiceVars, persistVars, uploadVars, summaryVars, streamVars, singletonVars>>
coreVars == <<agentVars, convVars, msgVars, toolVars, histVars, entryVars, ctxVars>>
nonImgVars == <<voiceVars, persistVars, uploadVars, summaryVars, streamVars, singletonVars, coreVars>>
nonVoiceVars == <<imgVars, persistVars, uploadVars, summaryVars, streamVars, singletonVars, coreVars>>
nonPersistVars == <<imgVars, voiceVars, uploadVars, summaryVars, streamVars, singletonVars, coreVars>>
nonUploadVars == <<imgVars, voiceVars, persistVars, summaryVars, streamVars, singletonVars, coreVars>>
nonSummaryVars == <<imgVars, voiceVars, persistVars, uploadVars, streamVars, singletonVars, coreVars>>
nonStreamVars == <<imgVars, voiceVars, persistVars, uploadVars, summaryVars, singletonVars, coreVars>>
nonSingletonVars == <<imgVars, voiceVars, persistVars, uploadVars, summaryVars, streamVars, coreVars>>
extVars == <<toolVars, histVars, entryVars, ctxVars, svcVars>>
vars == <<agentVars, convVars, msgVars, extVars>>
nonAgentVars == <<convVars, msgVars, extVars>>

(***************************************************************************)
(* Bounds                                                                  *)
(***************************************************************************)
MaxEvents == 3
MaxConcEvents == 2
MaxRequests == 2
MaxWriters == 3

Turns == {1, 2}

(***************************************************************************)
(* Agent orchestrator                                                      *)
(***************************************************************************)
NoName == "<undefined>"
Empty == << >>

\* The deflection strings of the guardrail, each a one-token text.
playfulGuidance == << <<"on-the-clock">>, <<"field-service-brain">>,
                      <<"happy-to-help">>, <<"nice-try-champ">> >>
GuardrailFallbackGuidance == <<"guardrail-focused-on-field-service">>
AgentFallbackGuidance == <<"agent-focused-on-field-service">>

\* Math.floor(Math.random() * playfulGuidance.length)
GuidanceIndexes == 0 .. (Len(playfulGuidance) - 1)

\* playfulGuidance[i] ?? fallback
PickGuidance(i) ==
    IF i + 1 \in DOMAIN playfulGuidance THEN playfulGuidance[i + 1]
    ELSE GuardrailFallbackGuidance

\* result.finalOutput?.isFieldServiceQuestion ?? false
Classifications == {"yes", "no", "missing"}
IsFieldService(cls) == cls = "yes"

\* What the guardrail's execute returns for a classification and a draw:
\* outputInfo spreads the classifier's final output and adds the guidance.
GuardrailOutput(cls, i) ==
    [hasOutputInfo |-> TRUE, isFieldServiceQuestion |-> cls,
     guidance |-> PickGuidance(i), tripwireTriggered |-> ~IsFieldService(cls)]
NoGuardrailOutput ==
    [hasOutputInfo |-> FALSE, isFieldServiceQuestion |-> "none",
     guidance |-> Empty, tripwireTriggered |-> FALSE]

\* runInParallel of the guardrail: false blocks the model until it completes.
\* (RunInParallelTrue: the guardrail configured to run beside the model.)
RunInParallelTrue == TRUE
runInParallel == FALSE

\* guardrailOutput?.outputInfo?.guidance ?? guardrailOutput?.guidance ?? default
\* (DeflectionGuidanceNoInfo: the variant that never finds outputInfo.)
DeflectionGuidanceNoInfo(out) == AgentFallbackGuidance
DeflectionGuidance(out) ==
    IF out.hasOutputInfo THEN out.guidance ELSE AgentFallbackGuidance

(* Stream events.  type is the event's type; sub is data.type of a raw     *)
(* model event or rawItem.type of a run item event; name is rawItem.name;  *)
(* text is data.delta of a raw event, or the joined output_text of a       *)
(* message item.                                                           *)
Event(type, sub, name, text) ==
    [type |-> type, sub |-> sub, name |-> name, text |-> text]

TextDeltas(alphabet) ==
    {Event("raw_model_stream_event", "output_text_delta", NoName, d) :
        d \in {Empty} \cup {<<c>> : c \in alphabet}}
ToolCalls(names) ==
    {Event("run_item_stream_event", "hosted_tool_call", n, Empty) :
        n \in names \cup {NoName}}
    \cup {Event("run_item_stream_event", "function_call", "get_image", Empty)}
OtherEvents ==
    { Event("raw_model_stream_event", "response_started", NoName, <<"a">>),
      Event("run_item_stream_event", "message", NoName, Empty),
      Event("run_item_stream_event", "message", NoName, <<"m">>),
      Event("run_item_stream_event", "tool_call_output", NoName, Empty),
      Event("agent_updated_stream_event", "agent", NoName, Empty) }

StreamEvents == TextDeltas({"a", "b"}) \cup ToolCalls({"web_search"}) \cup OtherEvents

\* The events a turn's stream may carry when two turns run concurrently:
\* each turn's tokens and tool names are tagged with the turn.
TurnToken(t) == IF t = 1 THEN "x1" ELSE "x2"
TurnTool(t) == IF t = 1 THEN "tool1" ELSE "tool2"
ConcEvents(t) ==
    { Event("raw_model_stream_event", "output_text_delta", NoName, <<TurnToken(t)>>),
      Event("run_item_stream_event", "function_call", TurnTool(t), Empty) }

\* stream.finalOutput: a string, or not a string (undefined).
FinalOutput(isString, text) == [isString |-> isString, text |-> text]
FinalOutputs == { FinalOutput(FALSE, Empty), FinalOutput(TRUE, Empty),
                  FinalOutput(TRUE, <<"f">>) }

IsTextDelta(e) ==
    e.type = "raw_model_stream_event" /\ e.sub = "output_text_delta"
IsChunk(e) == IsTextDelta(e) /\ e.text # Empty
IsToolCall(e) ==
    e.type = "run_item_stream_event"
    /\ e.sub \in {"hosted_tool_call", "function_call"}
IsAssistantMessage(e) ==
    e.type = "run_item_stream_event" /\ e.sub = "message"

\* rawItem.name ?? rawItem.type ?? "tool_call"
ToolName(e) == IF e.name # NoName THEN e.name ELSE e.sub

\* The buffer of the turn after one event (the body of the for-await loop).
\* (TextAfterNoAppend: the variant that assigns the delta instead of appending.)
TextAfterNoAppend(text, e) ==
    IF IsChunk(e) THEN e.text
    ELSE IF IsAssistantMessage(e) /\ e.text # Empty /\ text = Empty THEN e.text
    ELSE text
\* (TextAfterMessageReplaces: the variant in which a message item's text
\* replaces whatever the buffer holds.)
TextAfterMessageReplaces(text, e) ==
    IF IsChunk(e) THEN text \o e.text
    ELSE IF IsAssistantMessage(e) /\ e.text # Empty THEN e.text
    ELSE text
TextAfter(text, e) ==
    IF IsChunk(e) THEN text \o e.text
    ELSE IF IsAssistantMessage(e) /\ e.text # Empty /\ text = Empty THEN e.text
    ELSE text

ToolsAfter(tools, e) == IF IsToolCall(e) THEN Append(tools, ToolName(e)) ELSE tools

\* Array.from(new Set(list)): the first occurrence of each name, in order.
RECURSIVE DedupFrom(_, _)
DedupFrom(list, seen) ==
    IF list = << >> THEN << >>
    ELSE IF Head(list) \in seen THEN DedupFrom(Tail(list), seen)
    ELSE <<Head(list)>> \o DedupFrom(Tail(list), seen \cup {Head(list)})
\* (DedupNone: the variant that reports the list as accumulated.)
DedupNone(list) == list
Dedup(list) == DedupFrom(list, {})

\* typeof finalOutput === "string" && finalOutput.length > 0 ? finalOutput : fullText
\* (FinalContentAlwaysFinal: the variant without the length test.)
FinalContentAlwaysFinal(fo, text) == IF fo.isString THEN fo.text ELSE text
\* (FinalContentBufferOnly: the variant that ignores the final output.)
FinalContentBufferOnly(fo, text) == text
FinalContent(fo, text) ==
    IF fo.isString /\ Len(fo.text) > 0 THEN fo.text ELSE text

NoResponse == [messageId |-> "none", content |-> Empty, hasMetadata |-> FALSE,
               toolsUsed |-> << >>]
AgentResponse(fo, text, tools) ==
    [messageId |-> "msg", content |-> FinalContent(fo, text),
     hasMetadata |-> TRUE, toolsUsed |-> Dedup(tools)]
\* (GuardrailResponseWithMetadata: the variant that attaches metadata naming
\* a tool to the deflection.)
GuardrailResponseWithMetadata(out) ==
    [messageId |-> "guardrail", content |-> DeflectionGuidance(out),
     hasMetadata |-> TRUE, toolsUsed |-> <<"web_search">>]
GuardrailResponse(out) ==
    [messageId |-> "guardrail", content |-> DeflectionGuidance(out),
     hasMetadata |-> FALSE, toolsUsed |-> << >>]

\* A callback invocation: the callback, its arguments, and for onComplete the
\* response passed.  newText is the buffer after the event.
NoArg == << >>
Callback(cb, a, b, r) == [cb |-> cb, a |-> a, b |-> b, r |-> r]
Thinking == Callback("onThinking", NoArg, NoArg, NoResponse)
Error == Callback("onError", NoArg, NoArg, NoResponse)
Complete(resp) == Callback("onComplete", NoArg, NoArg, resp)

\* (CallbacksOfNoChunk: the variant that never calls onTextChunk.)
CallbacksOfNoChunk(newText, e) ==
    IF IsToolCall(e)
    THEN <<[cb |-> "onToolCall", a |-> <<ToolName(e)>>, b |-> NoArg, r |-> NoResponse]>>
    ELSE << >>
CallbacksOf(newText, e) ==
    IF IsChunk(e) THEN <<Callback("onTextChunk", e.text, newText, NoResponse)>>
    ELSE IF IsToolCall(e)
         THEN <<Callback("onToolCall", <<ToolName(e)>>, NoArg, NoResponse)>>
    ELSE << >>

\* The slot holding a turn's fullText and toolsUsed: locals of the call.
\* (BufShared: the variant keeping them as fields of the shared instance.)
BufShared(t) == 1
Buf(t) == t

\* runAgent up to the call of run(): onThinking, then run(this.agent, ...).
Begin(t) ==
    /\ pc[t] = "idle"
    /\ callbacks' = [callbacks EXCEPT ![t] = Append(@, Thinking)]
    /\ runCalls' = [runCalls EXCEPT ![t] = @ + 1]
    /\ pc' = [pc EXCEPT ![t] = "calling"]
    /\ UNCHANGED <<nonAgentVars, finalOutput>>
    /\ UNCHANGED <<guard, guardOut, gen, fault, events, fullText, toolsUsed, response>>

\* run() has returned the stream: let fullText = ""; const toolsUsed = [].
AwaitRun(t) ==
    /\ pc[t] = "calling"
    /\ fullText' = [fullText EXCEPT ![Buf(t)] = Empty]
    /\ toolsUsed' = [toolsUsed EXCEPT ![Buf(t)] = << >>]
    /\ pc' = [pc EXCEPT ![t] = "streaming"]
    /\ UNCHANGED <<nonAgentVars, finalOutput>>
    /\ UNCHANGED <<guard, guardOut, gen, fault, events, callbacks, response, runCalls>>

\* The guardrail's execute resolves inside the run.
GuardrailExecute(t, cls, i) ==
    /\ pc[t] \in {"calling", "streaming"}
    /\ guard[t] = "pending"
    /\ fault[t] = "none"
    /\ LET out == GuardrailOutput(cls, i) IN
        /\ guardOut' = [guardOut EXCEPT ![t] = out]
        /\ guard' = [guard EXCEPT ![t] =
                        IF out.tripwireTriggered THEN "tripped" ELSE "passed"]
        /\ fault' = [fault EXCEPT ![t] =
                        IF out.tripwireTriggered THEN "tripwire" ELSE "none"]
    /\ UNCHANGED <<nonAgentVars, finalOutput>>
    /\ UNCHANGED <<pc, gen, events, fullText, toolsUsed, callbacks, response, runCalls>>

\* The guardrail's own classification call throws.
GuardrailError(t) ==
    /\ pc[t] \in {"calling", "streaming"}
    /\ guard[t] = "pending"
    /\ fault[t] = "none"
    /\ guard' = [guard EXCEPT ![t] = "error"]
    /\ fault' = [fault EXCEPT ![t] = "error"]
    /\ UNCHANGED <<nonAgentVars, finalOutput>>
    /\ UNCHANGED <<pc, guardOut, gen, events, fullText, toolsUsed, callbacks,
                   response, runCalls>>

\* The run starts the main agent's generation.
ModelStart(t) ==
    /\ pc[t] \in {"calling", "streaming"}
    /\ gen[t] = 0
    /\ fault[t] = "none"
    /\ guard[t] = "passed" \/ (runInParallel /\ guard[t] = "pending")
    /\ gen' = [gen EXCEPT ![t] = @ + 1]
    /\ UNCHANGED <<nonAgentVars, finalOutput>>
    /\ UNCHANGED <<pc, guard, guardOut, fault, events, fullText, toolsUsed,
                   callbacks, response, runCalls>>

\* The generation fails (transport error, malformed stream).
GenerationError(t) ==
    /\ pc[t] \in {"calling", "streaming"}
    /\ gen[t] > 0
    /\ fault[t] = "none"
    /\ fault' = [fault EXCEPT ![t] = "error"]
    /\ UNCHANGED <<nonAgentVars, finalOutput>>
    /\ UNCHANGED <<pc, guard, guardOut, gen, events, fullText, toolsUsed,
                   callbacks, response, runCalls>>

\* One iteration of for await (const event of stream).
StreamEvent(t, e, max) ==
    /\ pc[t] = "streaming"
    /\ gen[t] > 0
    /\ fault[t] = "none"
    /\ Len(events[t]) < max
    /\ events' = [events EXCEPT ![t] = Append(@, e)]
    /\ fullText' = [fullText EXCEPT ![Buf(t)] = TextAfter(@, e)]
    /\ callbacks' = [callbacks EXCEPT ![t] = @ \o CallbacksOf(fullText'[Buf(t)], e)]
    /\ toolsUsed' = [toolsUsed EXCEPT ![Buf(t)] = ToolsAfter(@, e)]
    /\ UNCHANGED <<nonAgentVars, finalOutput>>
    /\ UNCHANGED <<pc, guard, guardOut, gen, fault, response, runCalls>>

\* The stream is exhausted and completed: build the response, onComplete, return.
StreamEnd(t, fo) ==
    /\ pc[t] = "streaming"
    /\ gen[t] > 0
    /\ guard[t] = "passed"
    /\ fault[t] = "none"
    /\ LET resp == AgentResponse(fo, fullText[Buf(t)], toolsUsed[Buf(t)]) IN
        /\ callbacks' = [callbacks EXCEPT ![t] = Append(@, Complete(resp))]
        /\ response' = [response EXCEPT ![t] = resp]
    /\ finalOutput' = [finalOutput EXCEPT ![t] = fo]
    /\ pc' = [pc EXCEPT ![t] = "returned"]
    /\ UNCHANGED nonAgentVars
    /\ UNCHANGED <<guard, guardOut, gen, fault, events, fullText, toolsUsed, runCalls>>

\* catch: error instanceof InputGuardrailTripwireTriggered.
\* (CatchTripwireAsError: the variant that treats the trip as any other error.)
CatchTripwireAsError(t) ==
    /\ pc[t] \in {"calling", "streaming"}
    /\ fault[t] = "tripwire"
    /\ callbacks' = [callbacks EXCEPT ![t] = Append(@, Error)]
    /\ pc' = [pc EXCEPT ![t] = "thrown"]
    /\ UNCHANGED <<nonAgentVars, finalOutput>>
    /\ UNCHANGED <<guard, guardOut, gen, fault, events, fullText, toolsUsed,
                   response, runCalls>>
CatchTripwire(t) ==
    /\ pc[t] \in {"calling", "streaming"}
    /\ fault[t] = "tripwire"
    /\ response' = [response EXCEPT ![t] = GuardrailResponse(guardOut[t])]
    /\ pc' = [pc EXCEPT ![t] = "returned"]
    /\ UNCHANGED <<nonAgentVars, finalOutput>>
    /\ UNCHANGED <<guard, guardOut, gen, fault, events, fullText, toolsUsed,
                   callbacks, runCalls>>

\* catch: any other error: onError, then throw.
\* (CatchErrorRetry: the variant that calls run() once more before throwing.)
CatchErrorRetry(t) ==
    /\ pc[t] \in {"calling", "streaming"}
    /\ fault[t] = "error"
    /\ callbacks' = [callbacks EXCEPT ![t] = Append(@, Error)]
    /\ IF runCalls[t] < 2
       THEN /\ runCalls' = [runCalls EXCEPT ![t] = @ + 1]
            /\ gen' = [gen EXCEPT ![t] = IF guard[t] = "passed" THEN @ + 1 ELSE @]
            /\ fault' = [fault EXCEPT ![t] = "none"]
            /\ pc' = [pc EXCEPT ![t] = "calling"]
       ELSE /\ pc' = [pc EXCEPT ![t] = "thrown"]
            /\ UNCHANGED <<runCalls, gen, fault>>
    /\ UNCHANGED <<nonAgentVars, finalOutput>>
    /\ UNCHANGED <<guard, guardOut, events, fullText, toolsUsed, response>>
CatchError(t) ==
    /\ pc[t] \in {"calling", "streaming"}
    /\ fault[t] = "error"
    /\ callbacks' = [callbacks EXCEPT ![t] = Append(@, Error)]
    /\ pc' = [pc EXCEPT ![t] = "thrown"]
    /\ UNCHANGED <<nonAgentVars, finalOutput>>
    /\ UNCHANGED <<guard, guardOut, gen, fault, events, fullText, toolsUsed,
                   response, runCalls>>

AgentInit ==
    /\ pc = [t \in Turns |-> "idle"]
    /\ guard = [t \in Turns |-> "pending"]
    /\ guardOut = [t \in Turns |-> NoGuardrailOutput]
    /\ gen = [t \in Turns |-> 0]
    /\ fault = [t \in Turns |-> "none"]
    /\ events = [t \in Turns |-> << >>]
    /\ fullText = [t \in Turns |-> Empty]
    /\ toolsUsed = [t \in Turns |-> << >>]
    /\ callbacks = [t \in Turns |-> << >>]
    /\ response = [t \in Turns |-> NoResponse]
    /\ runCalls = [t \in Turns |-> 0]
    /\ finalOutput = [t \in Turns |-> FinalOutput(FALSE, Empty)]

(***************************************************************************)
(* Conversation creation                                                   *)
(***************************************************************************)
Requests == 1 .. MaxRequests
Users == {"u1", "u2"}
Jobs == {"j1"}
RequestKinds == {"create", "getOrCreate", "serviceGetOrCreate"}

\* The status of a row inserted without one.
DefaultStatus == "ACTIVE"

IdleRequest == [pc |-> "idle", kind |-> "none", userId |-> "none", jobId |-> "none",
                result |-> 0]

\* prisma.conversation.findFirst({ where: { jobId, userId } }): the rows that
\* match; findFirst returns any one of them.
getByJobIdUniqueAndUserId(jobId, userId) ==
    {i \in DOMAIN convs : convs[i].jobId = jobId /\ convs[i].userId = userId}

\* conversationRepository.list({ userId, jobId, status })
list(userId, jobId, status) ==
    {i \in DOMAIN convs : /\ convs[i].userId = userId
                          /\ convs[i].jobId = jobId
                          /\ convs[i].status = status}

\* items[0] of a listing ordered by createdAt desc: the newest row.
Max(S) == CHOOSE x \in S : \A y \in S : x >= y

\* A request arrives: create, getOrCreateByJobIdAndUserId, or the service's
\* getOrCreateConversation, for a user and a job.
StartRequest(r, kind, userId, jobId) ==
    /\ req[r].pc = "idle"
    /\ req' = [req EXCEPT ![r] =
                 [pc |-> kind, kind |-> kind, userId |-> userId, jobId |-> jobId,
                  result |-> 0]]
    /\ UNCHANGED <<convs, agentVars, msgVars, extVars>>

\* getOrCreateByJobIdAndUserId: look for an existing row, else call create.
GetOrCreateCheck(r) ==
    /\ req[r].pc = "getOrCreate"
    /\ LET existing == getByJobIdUniqueAndUserId(req[r].jobId, req[r].userId) IN
         IF existing # {}
         THEN \E id \in existing :
                 req' = [req EXCEPT ![r] = [@ EXCEPT !.pc = "done", !.result = id]]
         ELSE req' = [req EXCEPT ![r].pc = "create"]
    /\ UNCHANGED <<convs, agentVars, msgVars, extVars>>

\* getOrCreateConversation: list the pair's ACTIVE rows, else startConversation,
\* which calls create.
ServiceGetOrCreateList(r) ==
    /\ req[r].pc = "serviceGetOrCreate"
    /\ LET existing == list(req[r].userId, req[r].jobId, "ACTIVE") IN
         req' = [req EXCEPT ![r] =
                   IF existing # {}
                   THEN [@ EXCEPT !.pc = "done", !.result = Max(existing)]
                   ELSE [@ EXCEPT !.pc = "create"]]
    /\ UNCHANGED <<convs, agentVars, msgVars, extVars>>

\* create: the existence check; throws when a row of the pair exists.
CreateCheck(r) ==
    /\ req[r].pc = "create"
    /\ LET existing == getByJobIdUniqueAndUserId(req[r].jobId, req[r].userId) IN
         req' = [req EXCEPT ![r].pc = IF existing # {} THEN "failed" ELSE "insert"]
    /\ UNCHANGED <<convs, agentVars, msgVars, extVars>>

\* create: prisma.conversation.create, after the check has passed.
CreateInsert(r) ==
    /\ req[r].pc = "insert"
    /\ convs' = Append(convs, [userId |-> req[r].userId, jobId |-> req[r].jobId,
                               status |-> DefaultStatus])
    /\ req' = [req EXCEPT ![r] = [@ EXCEPT !.pc = "done", !.result = Len(convs) + 1]]
    /\ UNCHANGED <<agentVars, msgVars, extVars>>

\* update(id, { status }), as close and archive call it.
update(id, status) ==
    /\ id \in DOMAIN convs
    /\ convs' = [convs EXCEPT ![id].status = status]
    /\ UNCHANGED <<req, agentVars, msgVars, extVars>>
close(id) == update(id, "CLOSED")
archive(id) == update(id, "ARCHIVED")
softDelete(id) == archive(id)

\* PATCH /conversations/:conversationId: the validated body, whose status is
\* any value of conversationStatusSchema, goes to update unchanged.
conversationStatusSchema == {"ACTIVE", "CLOSED", "ARCHIVED"}
updateConversation(id, status) == update(id, status)

ConvInit ==
    /\ convs = << >>
    /\ req = [r \in Requests |-> IdleRequest]

NextConv ==
    \/ \E r \in Requests, k \in RequestKinds, u \in Users, j \in Jobs :
          StartRequest(r, k, u, j)
    \/ \E r \in Requests : GetOrCreateCheck(r)
    \/ \E r \in Requests : ServiceGetOrCreateList(r)
    \/ \E r \in Requests : CreateCheck(r)
    \/ \E r \in Requests : CreateInsert(r)
    \/ \E id \in DOMAIN convs : close(id)
    \/ \E id \in DOMAIN convs : archive(id)
    \/ \E id \in DOMAIN convs : softDelete(id)
    \/ \E id \in DOMAIN convs, status \in conversationStatusSchema :
          updateConversation(id, status)

(***************************************************************************)
(* Message writer                                                          *)
(***************************************************************************)
Writers == 1 .. MaxWriters
CreatedAt == 1

IdleWrite == [pc |-> "idle", at |-> 0, staged |-> {}]

\* createWithConversationUpdate is called: new Date() is read and the batch
\* [message.create, conversation.update] is handed to prisma.$transaction.
TxBegin(w) ==
    /\ tx[w].pc = "idle"
    /\ clock' = clock + 1
    /\ tx' = [tx EXCEPT ![w] = [pc |-> "begun", at |-> clock + 1, staged |-> {}]]
    /\ UNCHANGED <<msgs, convUpdatedAt, agentVars, convVars, extVars>>

\* The transaction's first statement: prisma.message.create.  The row is
\* written inside the transaction, invisible until commit.
\* (TxInsertAutocommit: the variant that creates the message outside it.)
TxInsertAutocommit(w) ==
    /\ tx[w].pc = "begun"
    /\ msgs' = msgs \cup {w}
    /\ tx' = [tx EXCEPT ![w].pc = "inserted"]
    /\ UNCHANGED <<convUpdatedAt, clock, agentVars, convVars, extVars>>
TxInsert(w) ==
    /\ tx[w].pc = "begun"
    /\ tx' = [tx EXCEPT ![w] = [@ EXCEPT !.pc = "inserted", !.staged = @ \cup {"message"}]]
    /\ UNCHANGED <<msgs, convUpdatedAt, clock, agentVars, convVars, extVars>>

\* The second statement: prisma.conversation.update({ updatedAt }).
TxUpdate(w) ==
    /\ tx[w].pc = "inserted"
    /\ tx' = [tx EXCEPT ![w] = [@ EXCEPT !.pc = "updated", !.staged = @ \cup {"updatedAt"}]]
    /\ UNCHANGED <<msgs, convUpdatedAt, clock, agentVars, convVars, extVars>>

\* A statement or the commit fails: the transaction is rolled back and the
\* call rejects.
TxFail(w) ==
    /\ tx[w].pc \in {"begun", "inserted", "updated"}
    /\ tx' = [tx EXCEPT ![w] = [@ EXCEPT !.pc = "failed", !.staged = {}]]
    /\ UNCHANGED <<msgs, convUpdatedAt, clock, agentVars, convVars, extVars>>

\* Commit: the staged writes become visible together.
TxCommit(w) ==
    /\ tx[w].pc = "updated"
    /\ msgs' = IF "message" \in tx[w].staged THEN msgs \cup {w} ELSE msgs
    /\ convUpdatedAt' = IF "updatedAt" \in tx[w].staged THEN tx[w].at ELSE convUpdatedAt
    /\ tx' = [tx EXCEPT ![w] = [@ EXCEPT !.pc = "committed", !.staged = {}]]
    /\ UNCHANGED <<clock, agentVars, convVars, extVars>>

MsgInit ==
    /\ msgs = {}
    /\ convUpdatedAt = CreatedAt
    /\ clock = CreatedAt
    /\ tx = [w \in Writers |-> IdleWrite]

NextMsg ==
    \/ \E w \in Writers : TxBegin(w)
    \/ \E w \in Writers : TxInsert(w)
    \/ \E w \in Writers : TxUpdate(w)
    \/ \E w \in Writers : TxFail(w)
    \/ \E w \in Writers : TxCommit(w)

(***************************************************************************)
(* Tool-call records                                                       *)
(***************************************************************************)
MaxToolCalls == 2
MaxUpdaters == 2
MaxTime == 2
Updaters == 1 .. MaxUpdaters
NoTime == -1    \* a null completedAt or durationMs
ToolCallStatuses == {"PENDING", "RUNNING", "COMPLETED", "FAILED"}
PendingStatus == "PENDING"    \* the column default of ToolCall.status
IdleUpdate == [pc |-> "idle", id |-> 0, status |-> "none",
               completedAt |-> NoTime, durationMs |-> NoTime]

\* createToolCall: the row gets the column defaults for status and startedAt.
createToolCall ==
    /\ Len(toolCalls) < MaxToolCalls
    /\ toolCalls' = Append(toolCalls, [status |-> PendingStatus, startedAt |-> now,
                                       completedAt |-> NoTime, durationMs |-> NoTime])
    /\ UNCHANGED <<upd, now, histVars, entryVars, ctxVars, svcVars, agentVars, convVars, msgVars>>

\* updateToolCall(id, { status }) up to its first await: for COMPLETED and
\* FAILED it reads completedAt = new Date() and then awaits findUnique.
updateToolCall(u, id, status) ==
    /\ upd[u].pc = "idle"
    /\ id \in DOMAIN toolCalls
    /\ upd' = [upd EXCEPT ![u] =
                 IF status \in {"COMPLETED", "FAILED"}
                 THEN [pc |-> "find", id |-> id, status |-> status,
                       completedAt |-> now, durationMs |-> NoTime]
                 ELSE [pc |-> "write", id |-> id, status |-> status,
                       completedAt |-> NoTime, durationMs |-> NoTime]]
    /\ UNCHANGED <<toolCalls, now, histVars, entryVars, ctxVars, svcVars, agentVars, convVars, msgVars>>
markToolCallRunning(u, id) == updateToolCall(u, id, "RUNNING")
completeToolCall(u, id) == updateToolCall(u, id, "COMPLETED")
failToolCall(u, id) == updateToolCall(u, id, "FAILED")

\* findUnique has returned: durationMs = Date.now() - startedAt.
updateToolCallFind(u) ==
    /\ upd[u].pc = "find"
    /\ upd' = [upd EXCEPT ![u] =
                 [@ EXCEPT !.pc = "write",
                           !.durationMs = now - toolCalls[upd[u].id].startedAt]]
    /\ UNCHANGED <<toolCalls, now, histVars, entryVars, ctxVars, svcVars, agentVars, convVars, msgVars>>

\* prisma.toolCall.update writes the fields that updateData holds.
updateToolCallWrite(u) ==
    /\ upd[u].pc = "write"
    /\ LET d == upd[u] IN
         toolCalls' = [toolCalls EXCEPT ![d.id] =
             [@ EXCEPT !.status = d.status,
                       !.completedAt = IF d.completedAt # NoTime THEN d.completedAt ELSE @,
                       !.durationMs = IF d.durationMs # NoTime THEN d.durationMs ELSE @]]
    /\ upd' = [upd EXCEPT ![u] = IdleUpdate]
    /\ UNCHANGED <<now, histVars, entryVars, ctxVars, svcVars, agentVars, convVars, msgVars>>

\* Time passes.
Tick ==
    /\ now < MaxTime
    /\ now' = now + 1
    /\ UNCHANGED <<toolCalls, upd, histVars, entryVars, ctxVars, svcVars, agentVars, convVars, msgVars>>

ToolInit ==
    /\ toolCalls = << >>
    /\ upd = [u \in Updaters |-> IdleUpdate]
    /\ now = 0

NextTool ==
    \/ createToolCall
    \/ \E u \in Updaters, id \in DOMAIN toolCalls : markToolCallRunning(u, id)
    \/ \E u \in Updaters, id \in DOMAIN toolCalls : completeToolCall(u, id)
    \/ \E u \in Updaters, id \in DOMAIN toolCalls : failToolCall(u, id)
    \/ \E u \in Updaters : updateToolCallFind(u)
    \/ \E u \in Updaters : updateToolCallWrite(u)
    \/ Tick

(***************************************************************************)
(* History assembly                                                        *)
(***************************************************************************)
MaxMessages == 3
HISTORY_LIMIT == 2    \* 15 in the source, scaled to the size of the table
SenderTypes == {"USER", "AI"}
SummaryCounts == {0, 2}    \* length of metadata.imageSummaries of a message
MessageIds == 1 .. MaxMessages

Reverse(s) == [k \in 1 .. Len(s) |-> s[Len(s) + 1 - k]]
Take(s, n) == SubSeq(s, 1, IF Len(s) < n THEN Len(s) ELSE n)

\* The row prisma.message.create inserts: createdAt is the time of insertion,
\* which is the time of the previous insertion or later.
NewRow(senderType, summaries, elapsed) ==
    [createdAt |-> IF stored = << >> THEN CreatedAt
                   ELSE stored[Len(stored)].createdAt + elapsed,
     senderType |-> senderType, status |-> "SENT", imageSummaries |-> summaries]
createMessage(senderType, summaries, elapsed) ==
    /\ Len(stored) < MaxMessages
    /\ stored' = Append(stored, NewRow(senderType, summaries, elapsed))
    /\ history' = << >>
    /\ UNCHANGED <<toolVars, entryVars, ctxVars, svcVars, agentVars, convVars, msgVars>>

softDeleteMessage(id) ==
    /\ id \in DOMAIN stored
    /\ stored' = [stored EXCEPT ![id].status = "DELETED"]
    /\ history' = << >>
    /\ UNCHANGED <<toolVars, entryVars, ctxVars, svcVars, agentVars, convVars, msgVars>>

\* findMany({ status: not DELETED }, orderBy createdAt desc): the rows in any
\* order that is descending by createdAt (rows of equal createdAt in either order).
FindManyDesc ==
    LET rows == {id \in DOMAIN stored : stored[id].status # "DELETED"} IN
      {f \in [1 .. Cardinality(rows) -> rows] :
          /\ \A i, j \in DOMAIN f : f[i] = f[j] => i = j
          /\ \A i, j \in DOMAIN f :
                i < j => stored[f[i]].createdAt >= stored[f[j]].createdAt}
getLastMessages(found, count) == Reverse(Take(found, count))

\* The message listings, as the ids they return over all pages.
\* listByConversation: where status is not DELETED.
listByConversation == {id \in DOMAIN stored : stored[id].status # "DELETED"}
\* list(filters): the status clause is part of the query only when
\* filters.status is given.
NoFilter == "<undefined>"
listMessages(status) ==
    {id \in DOMAIN stored : status = NoFilter \/ stored[id].status = status}

\* An item of the agent input: its role, the message it renders (0 for the
\* technician profile) and, for an image summary, the summary's position.
Item(kind, role, id, n) == [kind |-> kind, role |-> role, of |-> id, n |-> n]
toTechnicianContextItem == Item("profile", "assistant", 0, 0)
toUserItem(id) == Item("message", "user", id, 0)
toAssistantItem(id) == Item("message", "assistant", id, 0)
toImageSummaryItems(id) ==
    [n \in 1 .. stored[id].imageSummaries |-> Item("summary", "assistant", id, n)]
MessageItem(id) ==
    IF stored[id].senderType = "AI" THEN toAssistantItem(id) ELSE toUserItem(id)

\* Variant of the loop body that pushes the summaries after the message.
PushMessageSummariesLast(id) == <<MessageItem(id)>> \o toImageSummaryItems(id)
\* The body of buildHistory's loop: the summaries, then the message.
PushMessage(id) == toImageSummaryItems(id) \o <<MessageItem(id)>>

RECURSIVE PushAll(_)
PushAll(recent) ==
    IF recent = << >> THEN << >>
    ELSE PushMessage(Head(recent)) \o PushAll(Tail(recent))

\* buildHistory with the technician profile and the image summaries.
buildHistory(found, profile) ==
    (IF profile THEN <<toTechnicianContextItem>> ELSE << >>)
        \o PushAll(getLastMessages(found, HISTORY_LIMIT))
\* buildHistory of ClaraAgent.ts: one item per message, nothing else.
buildHistoryMessagesOnly(found) ==
    LET recent == getLastMessages(found, HISTORY_LIMIT) IN
      [k \in 1 .. Len(recent) |-> MessageItem(recent[k])]

BuildHistory(found, profile) ==
    /\ history' = buildHistory(found, profile)
    /\ UNCHANGED <<stored, toolVars, entryVars, ctxVars, svcVars, agentVars, convVars, msgVars>>
BuildHistoryMessagesOnly(found) ==
    /\ history' = buildHistoryMessagesOnly(found)
    /\ UNCHANGED <<stored, toolVars, entryVars, ctxVars, svcVars, agentVars, convVars, msgVars>>

HistInit ==
    /\ stored = << >>
    /\ history = << >>

NextHist ==
    \/ \E st \in SenderTypes, n \in SummaryCounts, elapsed \in {0, 1} :
          createMessage(st, n, elapsed)
    \/ \E id \in DOMAIN stored : softDeleteMessage(id)
    \/ \E found \in FindManyDesc, profile \in BOOLEAN : BuildHistory(found, profile)
    \/ \E found \in FindManyDesc : BuildHistoryMessagesOnly(found)

(***************************************************************************)
(* Entry points of the agent and the chat request that calls them          *)
(***************************************************************************)
MaxTextLen == 2
TextTokens == {" ", "q"}    \* a whitespace character, another character
Texts == UNION {[1 .. n -> TextTokens] : n \in 0 .. MaxTextLen}
ImageCounts == {0, 1}

RECURSIVE TrimStart(_)
TrimStart(text) ==
    IF text # << >> /\ Head(text) = " " THEN TrimStart(Tail(text)) ELSE text
trim(text) == Reverse(TrimStart(Reverse(TrimStart(text))))

\* What an entry point does: it throws, or it calls runAgent with an input.
Thrown == [outcome |-> "thrown", input |-> << >>]
runAgent(input) == [outcome |-> "run", input |-> input]
\* The item of the new user turn, with its number of image parts.
toUserItemWithImages(images) == Item("turn", "user", 0, images)
toNewUserItem == Item("turn", "user", 0, 0)

processMessage(text, found) ==
    IF trim(text) = << >> THEN Thrown
    ELSE runAgent(buildHistoryMessagesOnly(found) \o <<toNewUserItem>>)
processMessageWithImages(text, images, found) ==
    IF trim(text) = << >> THEN Thrown
    ELSE runAgent(buildHistoryMessagesOnly(found) \o <<toUserItemWithImages(images)>>)
visionPrompt(question, imageUrls) ==
    question \o <<"Image URLs:">> \o [k \in 1 .. imageUrls |-> "url"]
             \o <<"Please inspect the images above and answer the question.">>
processVisionQuestion(question, imageUrls, found) ==
    processMessage(visionPrompt(question, imageUrls), found)
\* processMessageWithImages of the version that sends the user turn alone.
processMessageWithImagesAlone(text, images) ==
    IF trim(text) = << >> THEN Thrown
    ELSE IF images = 0 THEN Thrown
    ELSE runAgent(<<toUserItemWithImages(images)>>)

IdleCall == [pc |-> "idle", content |-> << >>, inlineImages |-> 0, imageUrls |-> 0,
             outcome |-> "none", input |-> << >>, messageId |-> 0]

\* sendMessage up to the saved user message; a request without senderId is
\* an AI-authored message and is only persisted.
SendMessageSave(content, senderId, inlineImages, elapsed) ==
    /\ call.pc # "saved"
    /\ Len(stored) + 2 <= MaxMessages
    /\ stored' = Append(stored, NewRow(IF senderId THEN "USER" ELSE "AI", 0, elapsed))
    /\ call' = [IdleCall EXCEPT !.pc = IF senderId THEN "saved" ELSE "done",
                                !.content = content, !.inlineImages = inlineImages,
                                !.messageId = Len(stored) + 1]
    /\ history' = << >>
    /\ UNCHANGED <<toolVars, ctxVars, svcVars, agentVars, convVars, msgVars>>

\* sendMessage from the image lookup on: the entry point is chosen by the
\* images at hand, and the AI message is saved when the agent has answered.
SendMessageProcess(fetched, found, answered, elapsed) ==
    /\ call.pc = "saved"
    /\ LET imageUrls == IF call.inlineImages > 0 THEN 0 ELSE fetched
           result ==
             IF call.inlineImages > 0
             THEN processMessageWithImages(call.content, call.inlineImages, found)
             ELSE IF imageUrls > 0
             THEN processVisionQuestion(call.content, imageUrls, found)
             ELSE processMessage(call.content, found)
           saved == result.outcome = "run" /\ answered
       IN /\ call' = [call EXCEPT !.pc = "done", !.imageUrls = imageUrls,
                                  !.outcome = result.outcome,
                                  !.input = result.input]
          /\ stored' = IF saved THEN Append(stored, NewRow("AI", 0, elapsed)) ELSE stored
    /\ history' = << >>
    /\ UNCHANGED <<toolVars, ctxVars, svcVars, agentVars, convVars, msgVars>>

\* A call of the version of processMessageWithImages that sends the turn alone.
ProcessMessageWithImagesAlone(text, images) ==
    /\ call.pc # "saved"
    /\ LET result == processMessageWithImagesAlone(text, images) IN
         call' = [IdleCall EXCEPT !.pc = "done", !.content = text,
                                  !.inlineImages = images,
                                  !.outcome = result.outcome,
                                  !.input = result.input]
    /\ UNCHANGED <<histVars, toolVars, ctxVars, svcVars, agentVars, convVars, msgVars>>

EntryInit == call = IdleCall

NextEntry ==
    \/ \E st \in SenderTypes, n \in SummaryCounts, elapsed \in {0, 1} :
          createMessage(st, n, elapsed)
    \/ \E content \in Texts, senderId \in BOOLEAN, n \in ImageCounts, elapsed \in {0, 1} :
          SendMessageSave(content, senderId, n, elapsed)
    \/ \E fetched \in ImageCounts, found \in FindManyDesc, answered \in BOOLEAN,
          elapsed \in {0, 1} :
          SendMessageProcess(fetched, found, answered, elapsed)
    \/ \E text \in Texts, n \in ImageCounts : ProcessMessageWithImagesAlone(text, n)

(***************************************************************************)
(* Context entries                                                         *)
(***************************************************************************)
MaxContexts == 3
MaxUpserters == 2
Upserters == 1 .. MaxUpserters
UpsertTypes == {"SUMMARY", "JOB_SNAPSHOT"}
ExpiresAts == {NoTime, 1}    \* options?.expiresAt: absent, or a time
IdleUpsert == [pc |-> "idle", contextType |-> "none", expiresAt |-> NoTime,
               existing |-> 0]

\* OR: [{ expiresAt: null }, { expiresAt: { gt: new Date() } }]
IsCurrent(row) == row.expiresAt = NoTime \/ row.expiresAt > now
\* findFirst of the type among the current entries, newest first; 0 for null.
getLatestByType(contextType) ==
    LET rows == {id \in DOMAIN contexts :
                    contexts[id].contextType = contextType /\ IsCurrent(contexts[id])}
    IN IF rows = {} THEN 0 ELSE Max(rows)

\* upsertByType is called; it awaits getLatestByType first.
upsertByType(u, contextType, expiresAt) ==
    /\ ups[u].pc = "idle"
    /\ ups' = [ups EXCEPT ![u] = [pc |-> "find", contextType |-> contextType,
                                  expiresAt |-> expiresAt, existing |-> 0]]
    /\ UNCHANGED <<contexts, toolVars, histVars, entryVars, svcVars, agentVars, convVars, msgVars>>
storeSummary(u) == upsertByType(u, "SUMMARY", NoTime)
storeJobSnapshot(u) == upsertByType(u, "JOB_SNAPSHOT", NoTime)

\* getLatestByType has returned.
UpsertFind(u) ==
    /\ ups[u].pc = "find"
    /\ ups' = [ups EXCEPT ![u] = [@ EXCEPT !.pc = "write",
                                           !.existing = getLatestByType(ups[u].contextType)]]
    /\ UNCHANGED <<contexts, toolVars, histVars, entryVars, svcVars, agentVars, convVars, msgVars>>

\* The entry found is updated (expiresAt only when the option is given);
\* when none was found a new entry is created.
UpsertWrite(u) ==
    /\ ups[u].pc = "write"
    /\ IF ups[u].existing # 0
       THEN contexts' = [contexts EXCEPT ![ups[u].existing].expiresAt =
                            IF ups[u].expiresAt # NoTime THEN ups[u].expiresAt ELSE @]
       ELSE /\ Len(contexts) < MaxContexts
            /\ contexts' = Append(contexts, [contextType |-> ups[u].contextType,
                                             expiresAt |-> ups[u].expiresAt])
    /\ ups' = [ups EXCEPT ![u] = IdleUpsert]
    /\ UNCHANGED <<toolVars, histVars, entryVars, svcVars, agentVars, convVars, msgVars>>

CtxInit ==
    /\ contexts = << >>
    /\ ups = [u \in Upserters |-> IdleUpsert]

NextCtx ==
    \/ \E u \in Upserters, ty \in UpsertTypes, ex \in ExpiresAts : upsertByType(u, ty, ex)
    \/ \E u \in Upserters : storeSummary(u)
    \/ \E u \in Upserters : storeJobSnapshot(u)
    \/ \E u \in Upserters : UpsertFind(u)
    \/ \E u \in Upserters : UpsertWrite(u)
    \/ Tick

(***************************************************************************)
(* Image resolution: getPresignedUrlForKey (s3.ts), the get_images tool    *)
(* and the chat controller's fetchImagesForConversation.                   *)
(*                                                                         *)
(* A JavaScript number is a record: a finite one carries its value, the    *)
(* three non-finite ones are told apart by the sign in v.                  *)
(***************************************************************************)
Num(n) == [finite |-> TRUE, v |-> n]
NaN == [finite |-> FALSE, v |-> 0]
PosInfinity == [finite |-> FALSE, v |-> 1]
NegInfinity == [finite |-> FALSE, v |-> -1]
isFinite(x) == x.finite
\* x <= 0 and x > 0 of JavaScript: every comparison with NaN is false.
LeZero(x) == IF x.finite THEN x.v <= 0 ELSE x = NegInfinity
GtZero(x) == IF x.finite THEN x.v > 0 ELSE x = PosInfinity

FallbackTtl == 900
MAX_TTL == 60 * 60 * 24 * 90
\* Number(process.env.S3_SIGNED_URL_TTL ?? "900") over the values a
\* deployment can set: unset, "0", "-5", "abc", "Infinity", "3600" and a
\* value above the provider's limit.
ConfiguredTtls == {Num(FallbackTtl), Num(0), Num(-5), NaN, PosInfinity,
                   Num(3600), Num(MAX_TTL + 1)}
defaultTtl(configuredTtl) ==
    IF isFinite(configuredTtl) /\ GtZero(configuredTtl) THEN configuredTtl
    ELSE Num(FallbackTtl)
\* The TTLs a caller can pass; an omitted argument is the default parameter.
Omitted == [finite |-> FALSE, v |-> 2]
ExpiresIns == {Omitted, Num(-1), Num(0), Num(1), Num(FallbackTtl), Num(MAX_TTL),
               Num(MAX_TTL + 1), NaN, PosInfinity, NegInfinity}
Min(a, b) == IF a <= b THEN a ELSE b
\* Variant: the TTL is only capped, never replaced.
safeTtlCapOnly(expiresInSeconds, default) ==
    IF isFinite(expiresInSeconds) THEN Num(Min(expiresInSeconds.v, MAX_TTL))
    ELSE IF expiresInSeconds = PosInfinity THEN Num(MAX_TTL)
    ELSE expiresInSeconds
safeTtl(expiresInSeconds, default) ==
    IF ~isFinite(expiresInSeconds) \/ LeZero(expiresInSeconds) THEN default
    ELSE Num(Min(expiresInSeconds.v, MAX_TTL))
NotSigned == [called |-> FALSE, thrown |-> FALSE, configuredTtl |-> Num(FallbackTtl),
              expiresInSeconds |-> Omitted, expiresIn |-> Num(FallbackTtl)]
\* getPresignedUrlForKey(key, expiresInSeconds = defaultTtl) in a process
\* started with the given S3_SIGNED_URL_TTL, with or without a bucket.
getPresignedUrlForKey(configuredTtl, ttl, bucket) ==
    LET default == defaultTtl(configuredTtl)
        expiresInSeconds == IF ttl = Omitted THEN default ELSE ttl
    IN  /\ signed' = IF ~bucket
                     THEN [called |-> TRUE, thrown |-> TRUE, configuredTtl |-> configuredTtl,
                           expiresInSeconds |-> ttl, expiresIn |-> Num(FallbackTtl)]
                     ELSE [called |-> TRUE, thrown |-> FALSE, configuredTtl |-> configuredTtl,
                           expiresInSeconds |-> ttl,
                           expiresIn |-> safeTtl(expiresInSeconds, default)]
        /\ UNCHANGED <<imageFiles, imageMessages, resolved, nonImgVars>>

\* An attachment is told by what it carries: a stored url, a storage key in
\* its metadata, both (what the upload endpoint writes), or neither.
AttachmentKinds == {"url", "key", "both", "none"}
HasUrl(att) == att \in {"url", "both"}
HasKey(att) == att \in {"key", "both"}
MaxAttachments == 1
MaxImageMessages == 2
MaxImageFiles == 1
AttachmentLists == UNION {[1..n -> AttachmentKinds] : n \in 0..MaxAttachments}
\* limit of the callers: undefined in sendMessage, 1 in streamMessage.
NoLimit == 0
ToolTake == 4
DefaultLimit == 4
Limits == {NoLimit, 1}
\* prisma's take and Array.slice(0, limit): an undefined limit keeps all.
TakeLimit(s, limit) == IF limit = NoLimit THEN s ELSE Take(s, limit)
\* Positions of the IMAGE messages, newest first (orderBy createdAt desc).
ImageMessagesDesc == [i \in 1..Len(imageMessages) |-> Len(imageMessages) + 1 - i]
Image(m, a, url) == [msg |-> m, att |-> a, url |-> url]
NotResolved == [by |-> "none", limit |-> NoLimit, signOk |-> TRUE,
                outcome |-> "none", images |-> << >>]
Resolved(by, limit, signOk, outcome, images) ==
    [by |-> by, limit |-> limit, signOk |-> signOk, outcome |-> outcome, images |-> images]
\* getRecentImagesWithPresignedUrls: the newest rows, each with a signed url.
getRecentImagesWithPresignedUrls(limit) ==
    [i \in 1..Min(imageFiles, IF limit = NoLimit THEN DefaultLimit ELSE limit) |->
        Image(0, i, "signed")]

\* Variant of the tool's attachment step that knows stored urls only.
ToolAttachmentUrlOnly(m, a, signOk) ==
    IF HasUrl(imageMessages[m][a]) THEN <<Image(m, a, "stored")>> ELSE << >>
\* The tool's step for one attachment: the key first; a signing error is
\* caught, logged, and the attachment left out.
ToolAttachment(m, a, signOk) ==
    IF HasKey(imageMessages[m][a])
    THEN IF signOk THEN <<Image(m, a, "signed")>> ELSE << >>
    ELSE IF HasUrl(imageMessages[m][a]) THEN <<Image(m, a, "stored")>> ELSE << >>
\* The controller's step for one attachment: the stored url first.
ControllerAttachment(m, a) ==
    IF HasUrl(imageMessages[m][a]) THEN <<Image(m, a, "stored")>>
    ELSE IF HasKey(imageMessages[m][a]) THEN <<Image(m, a, "signed")>> ELSE << >>
\* Does the controller's step for this attachment call the signer?
ControllerSigns(m, a) == ~HasUrl(imageMessages[m][a]) /\ HasKey(imageMessages[m][a])

RECURSIVE ToolScan(_, _, _, _)
ToolScan(ms, i, a, signOk) ==
    IF i > Len(ms) THEN << >>
    ELSE IF a > Len(imageMessages[ms[i]]) THEN ToolScan(ms, i + 1, 1, signOk)
    ELSE ToolAttachment(ms[i], a, signOk) \o ToolScan(ms, i, a + 1, signOk)
RECURSIVE ControllerScan(_, _, _)
ControllerScan(ms, i, a) ==
    IF i > Len(ms) THEN << >>
    ELSE IF a > Len(imageMessages[ms[i]]) THEN ControllerScan(ms, i + 1, 1)
    ELSE ControllerAttachment(ms[i], a) \o ControllerScan(ms, i, a + 1)

\* getImageTool.execute: the outer catch turns an error of the primary
\* source into an empty list.
getImageToolExecute(signOk) ==
    LET primary == getRecentImagesWithPresignedUrls(NoLimit)
    IN  IF imageFiles > 0
        THEN IF signOk THEN Resolved("tool", ToolTake, signOk, "ok", primary)
             ELSE Resolved("tool", ToolTake, signOk, "ok", << >>)
        ELSE Resolved("tool", ToolTake, signOk, "ok",
                      ToolScan(Take(ImageMessagesDesc, ToolTake), 1, 1, signOk))
\* fetchImagesForConversation: a signing error is not caught.
fetchImagesForConversation(by, limit, signOk) ==
    LET primary == getRecentImagesWithPresignedUrls(limit)
        ms == TakeLimit(ImageMessagesDesc, limit)
    IN  IF imageFiles > 0
        THEN IF signOk THEN Resolved(by, limit, signOk, "ok", primary)
             ELSE Resolved(by, limit, signOk, "thrown", << >>)
        ELSE IF ~signOk /\ \E i \in 1..Len(ms) :
                             \E a \in 1..Len(imageMessages[ms[i]]) : ControllerSigns(ms[i], a)
             THEN Resolved(by, limit, signOk, "thrown", << >>)
             ELSE Resolved(by, limit, signOk, "ok",
                           TakeLimit(ControllerScan(ms, 1, 1), limit))

\* An upload stores an ImageFile row.
CreateImageFile ==
    /\ imageFiles < MaxImageFiles
    /\ imageFiles' = imageFiles + 1
    /\ resolved' = NotResolved
    /\ UNCHANGED <<imageMessages, signed, nonImgVars>>
\* A message of content type IMAGE is stored with its attachments.
CreateImageMessage(atts) ==
    /\ Len(imageMessages) < MaxImageMessages
    /\ imageMessages' = Append(imageMessages, atts)
    /\ resolved' = NotResolved
    /\ UNCHANGED <<imageFiles, signed, nonImgVars>>
GetImages(signOk) ==
    /\ resolved' = getImageToolExecute(signOk)
    /\ UNCHANGED <<imageFiles, imageMessages, signed, nonImgVars>>
SendMessageImages(signOk) ==
    /\ resolved' = fetchImagesForConversation("sendMessage", NoLimit, signOk)
    /\ UNCHANGED <<imageFiles, imageMessages, signed, nonImgVars>>
StreamMessageImages(signOk) ==
    /\ resolved' = fetchImagesForConversation("streamMessage", 1, signOk)
    /\ UNCHANGED <<imageFiles, imageMessages, signed, nonImgVars>>

ImgInit ==
    /\ imageFiles = 0
    /\ imageMessages = << >>
    /\ resolved = NotResolved
    /\ signed = NotSigned

NextImg ==
    \/ CreateImageFile
    \/ \E atts \in AttachmentLists : CreateImageMessage(atts)
    \/ \E signOk \in BOOLEAN : GetImages(signOk)
    \/ \E signOk \in BOOLEAN : SendMessageImages(signOk)
    \/ \E signOk \in BOOLEAN : StreamMessageImages(signOk)

\* Signing calls alone, over every configured and every requested TTL.
NextSign ==
    \E c \in ConfiguredTtls, ttl \in ExpiresIns, bucket \in BOOLEAN :
        getPresignedUrlForKey(c, ttl, bucket)

(***************************************************************************)
(* Voice: RealtimeVoiceSession, ClaraVoiceAgent and VoiceController.stop.  *)
(***************************************************************************)
MaxTranscripts == 2
MaxStops == 2
\* Transcript texts: empty, whitespace only, and with content.
VoiceTexts == {<< >>, <<" ">>, <<"q">>}
TranscriptKinds == {"partial", "final"}
NoContext == [conversationId |-> "none", userId |-> "none"]
SessionContext == [conversationId |-> "c1", userId |-> "u1"]
\* What connecting can meet: no OPENAI_API_KEY, a refused connection, success.
Connects == {"no-key", "refused", "connected"}
\* What a turn can end with: content, no content, an exception.
TurnResults == {"content", "empty", "thrown"}

\* A RealtimeVoiceSession before start(): session = null, connected = false.
\* connecting holds the outcome of a connect call that is still awaited.
NotConnecting == "none"
NewSession == [session |-> FALSE, connected |-> FALSE, connecting |-> NotConnecting]
\* RealtimeVoiceSession.start
sessionStart(s, connect) ==
    IF connect = "no-key" THEN s
    ELSE IF connect = "refused"
         THEN [session |-> TRUE, connected |-> FALSE, connecting |-> NotConnecting]
    ELSE [session |-> TRUE, connected |-> TRUE, connecting |-> NotConnecting]
\* RealtimeVoiceSession.start up to its await of session.connect.
sessionConnect(s, connect) ==
    IF connect = "no-key" THEN s
    ELSE [session |-> TRUE, connected |-> FALSE, connecting |-> connect]
\* RealtimeVoiceSession.start after the await: connected = true when the
\* connection was made, whatever happened to the session meanwhile.
sessionConnected(s) ==
    [s EXCEPT !.connecting = NotConnecting,
              !.connected = IF s.connecting = "connected" THEN TRUE ELSE @]
\* RealtimeVoiceSession.stop: closes the session if there is one.
sessionStop(s) == [s EXCEPT !.session = FALSE, !.connected = FALSE]
\* RealtimeVoiceSession.sendText sends only on a connected session.
\* (CanSendIfConnected: the variant that tests the connected flag alone.)
CanSendIfConnected(s) == s.connected
CanSend(s) == s.session /\ s.connected

\* ClaraVoiceAgent.start
VoiceStart(connect) ==
    /\ voiceContext = NoContext
    /\ voiceContext' = SessionContext
    /\ voiceSession' = sessionConnect(voiceSession, connect)
    /\ UNCHANGED <<transcripts, voiceTurns, spoken, voiceSessions, stopResponses,
                   nonVoiceVars>>
\* The connect call of the session settles and start() resumes.
VoiceConnected ==
    /\ voiceSession.connecting # NotConnecting
    /\ voiceSession' = sessionConnected(voiceSession)
    /\ UNCHANGED <<voiceContext, transcripts, voiceTurns, spoken, voiceSessions,
                   stopResponses, nonVoiceVars>>
\* ClaraVoiceAgent.stop
VoiceStop ==
    /\ voiceSession' = sessionStop(voiceSession)
    /\ UNCHANGED <<voiceContext, transcripts, voiceTurns, spoken, voiceSessions,
                   stopResponses, nonVoiceVars>>

VoiceTurn(of, text) == [of |-> of, text |-> text, context |-> voiceContext, state |-> "running"]
\* Variant of the handler that drops the text.
ignoreTranscription(text) == voiceTurns
\* handleTranscription up to the call of processMessage.
handleTranscription(text) ==
    IF trim(text) = << >> THEN voiceTurns
    ELSE IF voiceContext = NoContext THEN voiceTurns
    ELSE Append(voiceTurns, VoiceTurn(Len(transcripts) + 1, text))
\* The callbacks the constructor hands to the session.
onTranscriptionPartial(text) == handleTranscription(text)
onTranscriptionFinal(text) == handleTranscription(text)
\* The session delivers a transcript event.
Transcript(kind, text) ==
    /\ voiceSession.session
    /\ Len(transcripts) < MaxTranscripts
    /\ transcripts' = Append(transcripts, [kind |-> kind, text |-> text])
    /\ voiceTurns' = IF kind = "partial" THEN onTranscriptionPartial(text)
                     ELSE onTranscriptionFinal(text)
    /\ UNCHANGED <<voiceSession, voiceContext, spoken, voiceSessions, stopResponses,
                   nonVoiceVars>>
\* Variant of the catch block that also tears the session down.
catchAndStop(s) == sessionStop(s)
\* The catch block of handleTranscription logs and returns.
catchTurnError(s) == s
\* handleTranscription from the return of processMessage on.
TurnDone(i, result) ==
    /\ i \in 1..Len(voiceTurns)
    /\ voiceTurns[i].state = "running"
    /\ \/ /\ result = "content"
          /\ voiceTurns' = [voiceTurns EXCEPT ![i].state =
                               IF CanSend(voiceSession) THEN "spoken" ELSE "unsent"]
          /\ spoken' = IF CanSend(voiceSession) THEN Append(spoken, i) ELSE spoken
          /\ UNCHANGED voiceSession
       \/ /\ result = "empty"
          /\ voiceTurns' = [voiceTurns EXCEPT ![i].state = "silent"]
          /\ UNCHANGED <<spoken, voiceSession>>
       \/ /\ result = "thrown"
          /\ voiceTurns' = [voiceTurns EXCEPT ![i].state = "failed"]
          /\ voiceSession' = catchTurnError(voiceSession)
          /\ UNCHANGED spoken
    /\ UNCHANGED <<voiceContext, transcripts, voiceSessions, stopResponses, nonVoiceVars>>

\* The controller's store entry for one session id; started tells whether
\* VoiceController.start has ever issued the id.
NotStored == [stored |-> FALSE, started |-> FALSE, session |-> NewSession]
StopResponse(status) == [status |-> status, started |-> voiceSessions.started]
\* VoiceController.start issuing the session id; a start whose connection is
\* refused answers 500 and stores nothing.
ControllerStart(connect) ==
    /\ ~voiceSessions.started
    /\ connect # "refused"
    /\ voiceSessions' = [stored |-> TRUE, started |-> TRUE,
                         session |-> sessionStart(NewSession, connect)]
    /\ UNCHANGED <<voiceSession, voiceContext, transcripts, voiceTurns, spoken,
                   stopResponses, nonVoiceVars>>
\* VoiceController.stop for the session id.
ControllerStop ==
    /\ Len(stopResponses) < MaxStops
    /\ IF ~voiceSessions.stored
       THEN /\ stopResponses' = Append(stopResponses, StopResponse(404))
            /\ UNCHANGED voiceSessions
       ELSE /\ voiceSessions' = [voiceSessions EXCEPT
                                    !.stored = FALSE,
                                    !.session = sessionStop(voiceSessions.session)]
            /\ stopResponses' = Append(stopResponses, StopResponse(200))
    /\ UNCHANGED <<voiceSession, voiceContext, transcripts, voiceTurns, spoken,
                   nonVoiceVars>>

VoiceInit ==
    /\ voiceSession = NewSession
    /\ voiceContext = NoContext
    /\ transcripts = << >>
    /\ voiceTurns = << >>
    /\ spoken = << >>
    /\ voiceSessions = NotStored
    /\ stopResponses = << >>

NextVoice ==
    \/ \E connect \in Connects : VoiceStart(connect)
    \/ VoiceConnected
    \/ VoiceStop
    \/ \E kind \in TranscriptKinds, text \in VoiceTexts : Transcript(kind, text)
    \/ \E i \in 1..MaxTranscripts, result \in TurnResults : TurnDone(i, result)
    \/ \E connect \in Connects : ControllerStart(connect)
    \/ ControllerStop

(***************************************************************************)
(* Persisting the AI response: ChatController.sendMessage, streamMessage   *)
(* and the analysis step of ConversationController.uploadImages.           *)
(***************************************************************************)
MaxAiRequests == 2
AiRequests == 1..MaxAiRequests
AiPaths == {"send", "stream", "upload"}
IdleAiReq == [path |-> "none", pc |-> "idle", generated |-> FALSE, persisted |-> FALSE,
              logged |-> "none", reported |-> "none"]
\* What each handler's catch block around the AI steps does with an error.
\* sendMessage: logger.error and status 500.
sendMessageCatch == [logged |-> "error", reported |-> "failed"]
\* streamMessage: logger.error and an SSE error event before the stream ends.
streamMessageCatch == [logged |-> "error", reported |-> "failed"]
\* uploadImages: logger.warn, then status 201 with success: true.
uploadImagesCatch == [logged |-> "warn", reported |-> "success"]
CatchOf(path) ==
    IF path = "send" THEN sendMessageCatch
    ELSE IF path = "stream" THEN streamMessageCatch
    ELSE uploadImagesCatch
\* The handler has stored the user's message and calls the agent.
AiStart(r, path) ==
    /\ aiReqs[r].pc = "idle"
    /\ aiReqs' = [aiReqs EXCEPT ![r] = [IdleAiReq EXCEPT !.path = path, !.pc = "generating"]]
    /\ UNCHANGED <<aiMessages, nonPersistVars>>
\* The agent call returns a response or throws.
AiGenerate(r, ok) ==
    /\ aiReqs[r].pc = "generating"
    /\ aiReqs' = [aiReqs EXCEPT ![r] =
                     IF ok THEN [@ EXCEPT !.pc = "generated", !.generated = TRUE]
                     ELSE [@ EXCEPT !.pc = "done",
                                    !.logged = CatchOf(aiReqs[r].path).logged,
                                    !.reported = CatchOf(aiReqs[r].path).reported]]
    /\ UNCHANGED <<aiMessages, nonPersistVars>>
\* messageRepository.create of the AI message resolves or rejects.
AiPersist(r, ok) ==
    /\ aiReqs[r].pc = "generated"
    /\ aiReqs' = [aiReqs EXCEPT ![r] =
                     IF ok THEN [@ EXCEPT !.pc = "done", !.persisted = TRUE,
                                          !.logged = "info", !.reported = "success"]
                     ELSE [@ EXCEPT !.pc = "done",
                                    !.logged = CatchOf(aiReqs[r].path).logged,
                                    !.reported = CatchOf(aiReqs[r].path).reported]]
    /\ aiMessages' = IF ok THEN aiMessages + 1 ELSE aiMessages
    /\ UNCHANGED nonPersistVars

PersistInit ==
    /\ aiReqs = [r \in AiRequests |-> IdleAiReq]
    /\ aiMessages = 0

NextPersist ==
    \/ \E r \in AiRequests, path \in AiPaths : AiStart(r, path)
    \/ \E r \in AiRequests, ok \in BOOLEAN : AiGenerate(r, ok)
    \/ \E r \in AiRequests, ok \in BOOLEAN : AiPersist(r, ok)

(***************************************************************************)
(* Image upload: ConversationController.uploadImages with its enrichment   *)
(* steps (embedding generation and persistence, analysis by the agent).    *)
(***************************************************************************)
MaxUploads == 2
UploadRequests == 1..MaxUploads
IdleUpload == [pc |-> "idle", s3 |-> "none", embedding |-> "none", message |-> "none",
               imageFile |-> "none", embeddingStored |-> "none", aiMessage |-> "none",
               status |-> 0, returnsMessage |-> FALSE]
\* generateImageEmbedding: every error is caught and null returned.
generateImageEmbedding(ok) == IF ok THEN "vector" ELSE "null"
\* The outer catch of uploadImages: status 500, no message in the body.
UploadFailed(u) == [u EXCEPT !.pc = "done", !.status = 500]
\* Variant of the catch around the embedding write that lets the error out.
persistEmbeddingRethrow(u) == UploadFailed([u EXCEPT !.embeddingStored = "failed"])
\* The catch around the embedding write: a warning, and the flow goes on.
persistEmbeddingCatch(u) == [u EXCEPT !.pc = "analysis", !.embeddingStored = "failed"]
\* The catch around the analysis: a warning, aiMessage stays null.
analysisCatch(u) == [u EXCEPT !.aiMessage = "absent"]
\* The response after the analysis step: 201 with the stored image message.
UploadResponded(u) == [u EXCEPT !.pc = "done", !.status = 201, !.returnsMessage = TRUE]

\* The request arrives; one without files is answered 400.
UploadStart(r, files) ==
    /\ uploads[r].pc = "idle"
    /\ uploads' = [uploads EXCEPT ![r] =
                      IF files = 0 THEN [IdleUpload EXCEPT !.pc = "done", !.status = 400]
                      ELSE [IdleUpload EXCEPT !.pc = "storing"]]
    /\ UNCHANGED nonUploadVars
\* Per file: uploadBufferToS3, getPresignedUrlForKey, generateImageEmbedding.
UploadStore(r, s3Ok, embeddingOk) ==
    /\ uploads[r].pc = "storing"
    /\ uploads' = [uploads EXCEPT ![r] =
                      IF ~s3Ok THEN UploadFailed([@ EXCEPT !.s3 = "failed"])
                      ELSE [@ EXCEPT !.pc = "message", !.s3 = "ok",
                                     !.embedding = generateImageEmbedding(embeddingOk)]]
    /\ UNCHANGED nonUploadVars
\* messageRepository.createWithConversationUpdate of the IMAGE message.
UploadWriteMessage(r, ok) ==
    /\ uploads[r].pc = "message"
    /\ uploads' = [uploads EXCEPT ![r] =
                      IF ok THEN [@ EXCEPT !.pc = "imageFile", !.message = "ok"]
                      ELSE UploadFailed([@ EXCEPT !.message = "failed"])]
    /\ UNCHANGED nonUploadVars
\* The transaction inserting the image_files rows.
UploadWriteImageFiles(r, ok) ==
    /\ uploads[r].pc = "imageFile"
    /\ uploads' = [uploads EXCEPT ![r] =
                      IF ~ok THEN UploadFailed([@ EXCEPT !.imageFile = "failed"])
                      ELSE [@ EXCEPT !.imageFile = "ok",
                                     !.pc = IF uploads[r].embedding = "vector"
                                            THEN "embedding" ELSE "analysis"]]
    /\ UNCHANGED nonUploadVars
\* The raw update storing the embedding of a file that has one.
UploadPersistEmbedding(r, ok) ==
    /\ uploads[r].pc = "embedding"
    /\ uploads' = [uploads EXCEPT ![r] =
                      IF ok THEN [@ EXCEPT !.pc = "analysis", !.embeddingStored = "ok"]
                      ELSE persistEmbeddingCatch(@)]
    /\ UNCHANGED nonUploadVars
\* The analysis of the uploaded images and the response.
UploadAnalyse(r, generated, persisted) ==
    /\ uploads[r].pc = "analysis"
    /\ uploads' = [uploads EXCEPT ![r] =
                      UploadResponded(IF generated /\ persisted
                                      THEN [@ EXCEPT !.aiMessage = "stored"]
                                      ELSE analysisCatch(@))]
    /\ UNCHANGED nonUploadVars

UploadInit == uploads = [r \in UploadRequests |-> IdleUpload]

NextUpload ==
    \/ \E r \in UploadRequests, files \in {0, 1} : UploadStart(r, files)
    \/ \E r \in UploadRequests, s3Ok \in BOOLEAN, embeddingOk \in BOOLEAN :
           UploadStore(r, s3Ok, embeddingOk)
    \/ \E r \in UploadRequests, ok \in BOOLEAN : UploadWriteMessage(r, ok)
    \/ \E r \in UploadRequests, ok \in BOOLEAN : UploadWriteImageFiles(r, ok)
    \/ \E r \in UploadRequests, ok \in BOOLEAN : UploadPersistEmbedding(r, ok)
    \/ \E r \in UploadRequests, generated \in BOOLEAN, persisted \in BOOLEAN :
           UploadAnalyse(r, generated, persisted)

(***************************************************************************)
(* Image summaries: summarizeImageUrl and its normalization step.          *)
(*                                                                         *)
(* A JavaScript value of a field is a token: "undefined", "null", a        *)
(* string ("text"), an array ("[a]") or a number ("7").                    *)
(***************************************************************************)
Nullish(v) == v \in {"undefined", "null"}
isArray(v) == v = "[a]"
StringFieldValues == {"undefined", "null", "text"}
ArrayFieldValues == {"undefined", "[a]", "text"}
\* The parsed objects: every kind of value in at least one string field and
\* one array field.
SummaryFields ==
    [source : StringFieldValues, summary : {"null", "text"},
     objects : ArrayFieldValues, observations : {"undefined", "[a]"},
     inferred_issue : {"undefined", "text"}, confidence : {"undefined", "7"},
     linked_entities : {"text"}]
NoFields == [source |-> "undefined", summary |-> "undefined", objects |-> "undefined",
             observations |-> "undefined", inferred_issue |-> "undefined",
             confidence |-> "undefined", linked_entities |-> "undefined"]
\* What the model's output text can be: nothing, text that JSON.parse
\* rejects, or JSON text of null, of a number or string, of an array, of an
\* object.
JsonValue(kind, fields) == [kind |-> kind, fields |-> fields]
Outputs == {JsonValue(k, NoFields) : k \in {"empty", "not-json", "null", "primitive", "array"}}
               \cup {JsonValue("object", f) : f \in SummaryFields}
Null == JsonValue("null", NoFields)
ImageUrls == {"empty", "unreachable", "ok"}

\* Variant of ?? that keeps defaulted values only.
orDefaultOnly(v, d) == IF Nullish(v) THEN d ELSE "null"
\* v ?? d
orDefault(v, d) == IF Nullish(v) THEN d ELSE v
\* Array.isArray(v) ? v : []
orEmptyArray(v) == IF isArray(v) THEN v ELSE "[]"
\* The normalization step: the six assignments on the parsed value.
normalize(parsed) ==
    [parsed EXCEPT !.fields =
        [source |-> orDefault(parsed.fields.source, "user_upload"),
         summary |-> orDefault(parsed.fields.summary, ""),
         objects |-> orEmptyArray(parsed.fields.objects),
         observations |-> orEmptyArray(parsed.fields.observations),
         inferred_issue |-> orDefault(parsed.fields.inferred_issue, ""),
         confidence |-> parsed.fields.confidence,
         linked_entities |-> orEmptyArray(parsed.fields.linked_entities)]]
\* summarizeImageUrl. Assigning a property of null throws a TypeError, which
\* the outer catch turns into null; assigning a property of a number or a
\* string throws in strict code and is ignored otherwise.
summarizeImageUrl(imageUrl, transportOk, output, strict) ==
    IF imageUrl = "empty" THEN Null
    ELSE IF imageUrl = "unreachable" \/ ~transportOk THEN Null
    ELSE IF output.kind \in {"empty", "not-json", "null"} THEN Null
    ELSE IF output.kind = "primitive" THEN (IF strict THEN Null ELSE output)
    ELSE normalize(output)

NotSummarized == [called |-> FALSE, imageUrl |-> "empty", transportOk |-> TRUE,
                  output |-> JsonValue("empty", NoFields), value |-> Null]
NotRenormalized == [done |-> FALSE, value |-> Null]
Summarize(imageUrl, transportOk, output, strict) ==
    /\ summarized' = [called |-> TRUE, imageUrl |-> imageUrl, transportOk |-> transportOk,
                      output |-> output,
                      value |-> summarizeImageUrl(imageUrl, transportOk, output, strict)]
    /\ renormalized' = NotRenormalized
    /\ UNCHANGED nonSummaryVars
\* The normalization step run again on a returned summary.
Renormalize ==
    /\ summarized.called
    /\ summarized.value.kind \in {"object", "array"}
    /\ renormalized' = [done |-> TRUE, value |-> normalize(summarized.value)]
    /\ UNCHANGED <<summarized, nonSummaryVars>>

SummaryInit ==
    /\ summarized = NotSummarized
    /\ renormalized = NotRenormalized

NextSummary ==
    \/ \E imageUrl \in ImageUrls, transportOk \in BOOLEAN, output \in Outputs,
          strict \in BOOLEAN : Summarize(imageUrl, transportOk, output, strict)
    \/ Renormalize

(***************************************************************************)
(* The chat stream: ChatController.streamMessage around runAgent of        *)
(* turn 1.  The events the agent's callbacks write are read off the        *)
(* callbacks of the turn; head and tail are the handler's own events.      *)
(***************************************************************************)
MaxStreamEvents == 2
MaxHeartbeats == 1
SseEvent(type, content) == [type |-> type, content |-> content]
IdleStream == [pc |-> "idle", timer |-> FALSE, head |-> << >>, tail |-> << >>,
               heartbeats |-> 0, lateHeartbeats |-> 0, persisted |-> FALSE]
\* The events of a stream under the handler: text in two tokens, a message
\* item, a tool call.
SseStreamEvents ==
    { Event("raw_model_stream_event", "output_text_delta", NoName, <<"a">>),
      Event("raw_model_stream_event", "output_text_delta", NoName, <<"b">>),
      Event("run_item_stream_event", "message", NoName, <<"m">>),
      Event("run_item_stream_event", "function_call", "get_image", Empty) }
\* The callbacks the handler passes: onThinking, onTextChunk, onToolCall and
\* onError each write one event; there is no onComplete.
CallbackEvent(c) ==
    IF c.cb = "onThinking" THEN <<SseEvent("thinking", Empty)>>
    ELSE IF c.cb = "onTextChunk" THEN <<SseEvent("chunk", c.a)>>
    ELSE IF c.cb = "onToolCall" THEN <<SseEvent("tool_call", Empty)>>
    ELSE IF c.cb = "onError" THEN <<SseEvent("error", Empty)>>
    ELSE << >>
RECURSIVE CallbackEvents(_)
CallbackEvents(cs) ==
    IF cs = << >> THEN << >> ELSE CallbackEvent(Head(cs)) \o CallbackEvents(Tail(cs))
\* Everything written to the response as an event, in order.
Written == sse.head \o CallbackEvents(callbacks[1]) \o sse.tail
\* The catch block of streamMessage: the error event, then res.end(); the
\* heartbeat timer is out of its scope.
streamCatch(s) == [s EXCEPT !.pc = "ended", !.tail = Append(@, SseEvent("error", Empty))]

\* streamMessage up to the user_message event.
StreamOpen(outcome) ==
    /\ sse.pc = "idle"
    /\ sse' = IF outcome = "not-found" THEN [sse EXCEPT !.pc = "rejected"]
              ELSE IF outcome = "save-fails" THEN streamCatch(sse)
              ELSE IF outcome = "ai-authored"
                   THEN [sse EXCEPT !.pc = "ended",
                                    !.tail = <<SseEvent("done", Empty)>>]
              ELSE [sse EXCEPT !.pc = "running", !.timer = TRUE,
                               !.head = <<SseEvent("user_message", Empty)>>]
    /\ UNCHANGED nonStreamVars
\* getClaraAgent, the image lookup and the entry point's steps before
\* runAgent: any of them may throw.
StreamPrepare(ok) ==
    /\ sse.pc = "running"
    /\ sse' = IF ok THEN [sse EXCEPT !.pc = "agent"] ELSE streamCatch(sse)
    /\ UNCHANGED nonStreamVars
\* The agent has returned: save the AI message, log the tool calls, then the
\* done event, res.end() and clearInterval.
StreamPersist(outcome) ==
    /\ sse.pc = "agent"
    /\ pc[1] = "returned"
    /\ sse' = IF outcome = "ok"
              THEN [sse EXCEPT !.pc = "ended", !.timer = FALSE, !.persisted = TRUE,
                               !.tail = <<SseEvent("done", response[1].content)>>]
              ELSE IF outcome = "create-fails" THEN streamCatch(sse)
              ELSE streamCatch([sse EXCEPT !.persisted = TRUE])
    /\ UNCHANGED nonStreamVars
\* The agent has thrown.
StreamThrown ==
    /\ sse.pc = "agent"
    /\ pc[1] = "thrown"
    /\ sse' = streamCatch(sse)
    /\ UNCHANGED nonStreamVars
\* The heartbeat interval fires and writes to the response.
Heartbeat ==
    /\ sse.timer
    /\ sse.heartbeats + sse.lateHeartbeats < MaxHeartbeats
    /\ sse' = IF sse.pc = "ended" THEN [sse EXCEPT !.lateHeartbeats = @ + 1]
              ELSE [sse EXCEPT !.heartbeats = @ + 1]
    /\ UNCHANGED nonStreamVars
\* A step of runAgent under the handler.
StreamAgent ==
    /\ sse.pc = "agent"
    /\ \/ Begin(1)
       \/ AwaitRun(1)
       \/ \E cls \in Classifications, i \in GuidanceIndexes : GuardrailExecute(1, cls, i)
       \/ ModelStart(1)
       \/ GenerationError(1)
       \/ \E e \in SseStreamEvents : StreamEvent(1, e, MaxStreamEvents)
       \/ \E fo \in FinalOutputs : StreamEnd(1, fo)
       \/ CatchTripwire(1)
       \/ CatchError(1)

StreamInit == sse = IdleStream

NextStream ==
    \/ \E outcome \in {"not-found", "save-fails", "ai-authored", "ok"} : StreamOpen(outcome)
    \/ \E ok \in BOOLEAN : StreamPrepare(ok)
    \/ StreamAgent
    \/ \E outcome \in {"ok", "create-fails", "log-fails"} : StreamPersist(outcome)
    \/ StreamThrown
    \/ Heartbeat

(***************************************************************************)
(* The agent singleton: getClaraAgent and shutdownClaraAgent               *)
(***************************************************************************)
MaxGetCalls == 3
MaxInstances == 2
GetCalls == 1 .. MaxGetCalls
NoInstance == 0
IdleGetCall == [pc |-> "idle", result |-> NoInstance]

\* ClaraAgent.init(): an async function without an await, so its body has run
\* when the call returns its promise: the key is set, or the promise is
\* rejected.
init(key) == IF key THEN "initialised" ELSE "failed"

\* What a call returns on entry when the singleton is set: the singleton,
\* whatever became of its init().
returnInstance(c, instance, status) == [pc |-> "done", result |-> instance]

\* getClaraAgent up to its await (or to its return): with no singleton, the
\* instance is constructed and assigned and init() is called; otherwise the
\* singleton is returned.
GetEnter(c) ==
    /\ getCalls[c].pc = "idle"
    /\ IF claraInstance = NoInstance
       THEN /\ Len(inits) < MaxInstances
            /\ inits' = Append(inits, init(apiKey))
            /\ claraInstance' = Len(inits) + 1
            /\ getCalls' = [getCalls EXCEPT ![c] =
                              [pc |-> "awaiting", result |-> Len(inits) + 1]]
       ELSE /\ getCalls' = [getCalls EXCEPT ![c] =
                              returnInstance(c, claraInstance, inits[claraInstance])]
            /\ UNCHANGED <<claraInstance, inits>>
    /\ UNCHANGED <<apiKey, shutting, nonSingletonVars>>
\* The await of init() resumes: the rejection propagates, or the singleton
\* as it is now is returned.
GetResume(c) ==
    /\ getCalls[c].pc = "awaiting"
    /\ getCalls' = [getCalls EXCEPT ![c] =
                      IF inits[getCalls[c].result] = "failed"
                      THEN [pc |-> "failed", result |-> NoInstance]
                      ELSE [pc |-> "done", result |-> claraInstance]]
    /\ UNCHANGED <<claraInstance, inits, apiKey, shutting, nonSingletonVars>>
\* shutdownClaraAgent up to its await of dispose().
ShutdownEnter ==
    /\ ~shutting
    /\ claraInstance # NoInstance
    /\ shutting' = TRUE
    /\ UNCHANGED <<claraInstance, inits, getCalls, apiKey, nonSingletonVars>>
\* shutdownClaraAgent after dispose(): claraInstance = null.
ShutdownResume ==
    /\ shutting
    /\ shutting' = FALSE
    /\ claraInstance' = NoInstance
    /\ UNCHANGED <<inits, getCalls, apiKey, nonSingletonVars>>

SingletonInit ==
    /\ claraInstance = NoInstance
    /\ inits = << >>
    /\ getCalls = [c \in GetCalls |-> IdleGetCall]
    /\ apiKey \in BOOLEAN
    /\ shutting = FALSE

NextSingleton ==
    \/ \E c \in GetCalls : GetEnter(c)
    \/ \E c \in GetCalls : GetResume(c)
    \/ ShutdownEnter
    \/ ShutdownResume

Init == AgentInit /\ ConvInit /\ MsgInit /\ ToolInit /\ HistInit /\ EntryInit /\ CtxInit
        /\ ImgInit /\ VoiceInit /\ PersistInit /\ UploadInit /\ SummaryInit /\ StreamInit /\ SingletonInit

\* One turn on the agent, over the full event alphabet.
Next ==
    \/ Begin(1)
    \/ AwaitRun(1)
    \/ \E cls \in Classifications, i \in GuidanceIndexes : GuardrailExecute(1, cls, i)
    \/ GuardrailError(1)
    \/ ModelStart(1)
    \/ GenerationError(1)
    \/ \E e \in StreamEvents : StreamEvent(1, e, MaxEvents)
    \/ \E fo \in FinalOutputs : StreamEnd(1, fo)
    \/ CatchTripwire(1)
    \/ CatchError(1)

Spec == Init /\ [][Next]_vars

\* Two turns running concurrently on the shared agent instance.
ConcFinalOutputs(t) == { FinalOutput(FALSE, Empty), FinalOutput(TRUE, <<TurnToken(t)>>) }
NextConc ==
    \E t \in Turns :
        \/ Begin(t)
        \/ AwaitRun(t)
        \/ GuardrailExecute(t, "yes", 0)
        \/ ModelStart(t)
        \/ \E e \in ConcEvents(t) : StreamEvent(t, e, MaxConcEvents)
        \/ \E fo \in ConcFinalOutputs(t) : StreamEnd(t, fo)

\* Two turns through the guardrail, with every outcome of its classification.
NextGuard ==
    \E t \in Turns :
        \/ Begin(t)
        \/ AwaitRun(t)
        \/ \E cls \in Classifications, i \in GuidanceIndexes : GuardrailExecute(t, cls, i)
        \/ GuardrailError(t)
        \/ ModelStart(t)
        \/ \E fo \in ConcFinalOutputs(t) : StreamEnd(t, fo)
        \/ CatchTripwire(t)
        \/ CatchError(t)

SpecConc == Init /\ [][NextConc]_vars
SpecGuard == Init /\ [][NextGuard]_vars
SpecConv == Init /\ [][NextConv]_vars
SpecMsg == Init /\ [][NextMsg]_vars
SpecTool == Init /\ [][NextTool]_vars
SpecHist == Init /\ [][NextHist]_vars
SpecEntry == Init /\ [][NextEntry]_vars
SpecCtx == Init /\ [][NextCtx]_vars
SpecImg == Init /\ [][NextImg]_vars
SpecSign == Init /\ [][NextSign]_vars
SpecVoice == Init /\ [][NextVoice]_vars
SpecPersist == Init /\ [][NextPersist]_vars
SpecSingleton == Init /\ [][NextSingleton]_vars
SpecStream == Init /\ [][NextStream]_vars
SpecSummary == Init /\ [][NextSummary]_vars
SpecUpload == Init /\ [][NextUpload]_vars

(***************************************************************************)
(* Properties of the agent orchestrator                                    *)
(***************************************************************************)
Range(s) == {s[k] : k \in DOMAIN s}
NoDuplicates(s) == \A i, j \in DOMAIN s : s[i] = s[j] => i = j

RECURSIVE ConcatTexts(_)
ConcatTexts(es) == IF es = << >> THEN << >> ELSE Head(es).text \o ConcatTexts(Tail(es))

IsOutputEvent(e) == IsChunk(e) \/ IsToolCall(e)
IsChunkCallback(c) == c.cb = "onTextChunk"
IsToolCallback(c) == c.cb = "onToolCall"
IsErrorCallback(c) == c.cb = "onError"
IsOutputCallback(c) == IsChunkCallback(c) \/ IsToolCallback(c)

\* The text the buffer holds when the first delta arrives: that of an
\* assistant message item that came before any delta, if there is one.
RECURSIVE SeedText(_)
SeedText(es) ==
    IF es = << >> \/ IsChunk(Head(es)) THEN Empty
    ELSE IF IsAssistantMessage(Head(es)) /\ Head(es).text # Empty THEN Head(es).text
    ELSE SeedText(Tail(es))

FixedDeflections == {playfulGuidance[k] : k \in DOMAIN playfulGuidance}
Deflected(t) == pc[t] = "returned" /\ guard[t] = "tripped"
Completed(t) == pc[t] = "returned" /\ response[t].messageId = "msg"

\* C1: when the guardrail classifies the turn as not a field-service question,
\* the main agent's generation is never started, no tool call of it is ever
\* reported, and the returned content is one of the guardrail's fixed
\* deflection strings.
C1_GuardrailGate ==
    \A t \in Turns :
        guard[t] = "tripped" =>
            /\ gen[t] = 0
            /\ \A k \in DOMAIN events[t] : ~IsToolCall(events[t][k])
            /\ toolsUsed[Buf(t)] = << >>
            /\ pc[t] = "returned" => response[t].content \in FixedDeflections
C1_Witness ==
    /\ Deflected(1)
    /\ response[1].content = playfulGuidance[3]

\* C2: the toolsUsed list of the final response holds every tool name that was
\* reported by a tool-call event of the turn, each exactly once.
C2_ToolDedup ==
    \A t \in Turns :
        Completed(t) =>
            /\ NoDuplicates(response[t].toolsUsed)
            /\ Range(response[t].toolsUsed) =
                  {c.a[1] : c \in Range(SelectSeq(callbacks[t], IsToolCallback))}
C2_Witness ==
    /\ Completed(1)
    /\ LET tc == SelectSeq(callbacks[1], IsToolCallback) IN
         /\ Len(tc) = 3
         /\ tc[1].a = tc[3].a
         /\ tc[1].a # tc[2].a

\* C5: no text-chunk or tool-call callback of a turn is invoked while its
\* guardrail check is unresolved, and a turn whose check fired returns the
\* deflection response with no text-chunk or tool-call callback invoked.
C5_GuardrailBlocks ==
    \A t \in Turns :
        /\ guard[t] = "pending" =>
              /\ events[t] = << >>
              /\ SelectSeq(callbacks[t], IsOutputCallback) = << >>
        /\ Deflected(t) =>
              /\ response[t] = GuardrailResponse(guardOut[t])
              /\ callbacks[t] = <<Thinking>>
C5_Witness ==
    /\ Deflected(1)
    /\ response[1].messageId = "guardrail"
    /\ callbacks[1] = <<Thinking>>
    /\ pc[2] = "idle"

\* C6: a turn that fails otherwise than by a guardrail trip invokes onError
\* exactly once, as its last callback, and then throws; it never returns a
\* response; and run() and the generation are started at most once per turn.
C6_ErrorOnceNoRetry ==
    \A t \in Turns :
        LET errs == SelectSeq(callbacks[t], IsErrorCallback) IN
        /\ runCalls[t] <= 1
        /\ gen[t] <= 1
        /\ pc[t] = "thrown" =>
              /\ fault[t] = "error"
              /\ Len(errs) = 1
              /\ callbacks[t][Len(callbacks[t])] = Error
        /\ pc[t] # "thrown" => errs = << >>
        /\ fault[t] = "error" => pc[t] # "returned" /\ response[t] = NoResponse
C6_Witness ==
    /\ pc[1] = "thrown"
    /\ Len(events[1]) = 2
    /\ callbacks[1][Len(callbacks[1])] = Error

\* C7: the content of a completed turn's response is stream.finalOutput when
\* that is a non-empty string, and the accumulated text otherwise.
C7_FinalOutputPreferred ==
    \A t \in Turns :
        Completed(t) =>
            LET fo == finalOutput[t] IN
            /\ (fo.isString /\ fo.text # Empty) => response[t].content = fo.text
            /\ (~fo.isString \/ fo.text = Empty) =>
                  response[t].content = fullText[Buf(t)]
C7_Witness ==
    /\ Completed(1)
    /\ finalOutput[1] = FinalOutput(TRUE, Empty)
    /\ response[1].content = <<"a", "b">>

\* C8 as stated: the k-th chunk callback carries the k-th (non-empty) delta
\* and, as running total, the concatenation of the first k deltas.
C8_TotalIsConcatOfDeltas ==
    \A t \in Turns :
        LET cbs == SelectSeq(callbacks[t], IsChunkCallback)
            ds == SelectSeq(events[t], IsChunk) IN
        /\ Len(cbs) = Len(ds)
        /\ \A k \in DOMAIN cbs :
              /\ cbs[k].a = ds[k].text
              /\ cbs[k].b = ConcatTexts(SubSeq(ds, 1, k))

\* C8 (amended): every non-empty text delta is appended to the buffer and passed
\* unchanged to the chunk callback with the buffer as running total: after the
\* k-th chunk callback the total is the text the buffer held before the first
\* delta (that of an assistant message item that arrived before any delta, else
\* empty) followed by the concatenation, in arrival order, of the first k deltas.
C8_TotalIsSeedThenDeltas ==
    \A t \in Turns :
        LET cbs == SelectSeq(callbacks[t], IsChunkCallback)
            ds == SelectSeq(events[t], IsChunk) IN
        /\ Len(cbs) = Len(ds)
        /\ \A k \in DOMAIN cbs :
              /\ cbs[k].a = ds[k].text
              /\ cbs[k].b = SeedText(events[t]) \o ConcatTexts(SubSeq(ds, 1, k))
        /\ pc[t] = "streaming" /\ ds # << >> =>
              fullText[Buf(t)] = SeedText(events[t]) \o ConcatTexts(ds)
C8_Witness ==
    LET cbs == SelectSeq(callbacks[1], IsChunkCallback) IN
    /\ Len(cbs) = 2
    /\ SeedText(events[1]) = <<"m">>
    /\ cbs[2].b = <<"m", "a", "b">>

\* C9: in a turn that runs to completion the callbacks are: onThinking once,
\* then the chunk and tool callbacks of the stream's events in stream order,
\* then onComplete once with the response that is returned, and nothing after.
C9_CallbackOrder ==
    \A t \in Turns :
        Completed(t) =>
            LET cbs == callbacks[t]
                n == Len(cbs)
                mid == SubSeq(cbs, 2, n - 1)
                out == SelectSeq(events[t], IsOutputEvent) IN
            /\ n >= 2
            /\ cbs[1] = Thinking
            /\ cbs[n].cb = "onComplete"
            /\ cbs[n].r = response[t]
            /\ Len(mid) = Len(out)
            /\ \A k \in DOMAIN mid :
                  /\ IsChunk(out[k]) =>
                        IsChunkCallback(mid[k]) /\ mid[k].a = out[k].text
                  /\ IsToolCall(out[k]) =>
                        IsToolCallback(mid[k]) /\ mid[k].a = <<ToolName(out[k])>>
C9_Witness ==
    /\ Completed(1)
    /\ Len(callbacks[1]) = 5
    /\ IsToolCallback(callbacks[1][2])
    /\ IsChunkCallback(callbacks[1][3])
    /\ IsToolCallback(callbacks[1][4])

\* C10: with two turns running concurrently, the text buffer and tool list of
\* each turn, and the content and toolsUsed of its response, hold only text
\* and tool names of that turn's own event stream.
C10_PerTurnBuffers ==
    \A t \in Turns :
        /\ pc[t] = "streaming" =>
              /\ fullText[Buf(t)] = ConcatTexts(SelectSeq(events[t], IsChunk))
              /\ Range(toolsUsed[Buf(t)]) \subseteq {TurnTool(t)}
        /\ Completed(t) =>
              /\ Range(response[t].content) \subseteq {TurnToken(t)}
              /\ Range(response[t].toolsUsed) \subseteq {TurnTool(t)}
              /\ ~finalOutput[t].isString =>
                    response[t].content = ConcatTexts(SelectSeq(events[t], IsChunk))
C10_Witness ==
    /\ Completed(1) /\ Completed(2)
    /\ response[1].content = <<"x1", "x1">>
    /\ response[2].content = <<"x2">>
    /\ response[2].toolsUsed = <<"tool2">>

(***************************************************************************)
(* Properties of conversation creation and of the message writer           *)
(***************************************************************************)
ActiveOf(userId, jobId) == list(userId, jobId, "ACTIVE")

\* C3: after any interleaving of creation requests (create, get-or-create) for
\* one (user, job) pair, at most one ACTIVE conversation exists for the pair.
C3_AtMostOneActive ==
    \A u \in Users, j \in Jobs : Cardinality(ActiveOf(u, j)) <= 1

\* C4: createWithConversationUpdate is atomic: at every moment each call's
\* message is visible exactly if the call has committed, and updatedAt is the
\* timestamp of a call whose message is visible, or the original one when no
\* message is visible; a failed call leaves no message and no refresh.
C4_AtomicWrite ==
    /\ msgs = {w \in Writers : tx[w].pc = "committed"}
    /\ msgs = {} => convUpdatedAt = CreatedAt
    /\ msgs # {} => convUpdatedAt \in {tx[w].at : w \in msgs}
C4_Witness ==
    /\ tx[1].pc = "failed"
    /\ tx[2].pc = "committed"
    /\ tx[1].at < tx[2].at
    /\ msgs = {2}
    /\ convUpdatedAt = tx[2].at

\* C13: under any sequence of update, close, archive and delete requests a
\* conversation that is CLOSED or ARCHIVED never becomes ACTIVE again.
C13_NeverReactivated ==
    [][\A id \in DOMAIN convs :
          convs[id].status # "ACTIVE" => convs'[id].status # "ACTIVE"]_vars

(***************************************************************************)
(* Properties of the tool-call records                                     *)
(***************************************************************************)
IsTerminal(status) == status \in {"COMPLETED", "FAILED"}
Rank(status) ==
    CASE status = "PENDING" -> 0
      [] status = "RUNNING" -> 1
      [] OTHER -> 2

\* C11: under any sequence of record, mark-running, complete and fail calls a
\* COMPLETED or FAILED tool call never changes status again, and no tool call
\* moves back to an earlier status of PENDING -> RUNNING -> COMPLETED | FAILED.
C11_StatusOnlyAdvances ==
    [][\A id \in DOMAIN toolCalls :
          /\ IsTerminal(toolCalls[id].status) =>
                toolCalls'[id].status = toolCalls[id].status
          /\ Rank(toolCalls'[id].status) >= Rank(toolCalls[id].status)]_vars

\* C12: a tool call has a duration and a completed timestamp exactly when it
\* is COMPLETED or FAILED, and then the duration is the completed timestamp
\* minus the started timestamp.
C12_DurationIsDelta ==
    \A id \in DOMAIN toolCalls :
        LET tc == toolCalls[id] IN
          IF IsTerminal(tc.status)
          THEN /\ tc.completedAt # NoTime
               /\ tc.durationMs = tc.completedAt - tc.startedAt
          ELSE /\ tc.completedAt = NoTime
               /\ tc.durationMs = NoTime

(***************************************************************************)
(* Properties of history assembly                                          *)
(***************************************************************************)
MessagePositions == {p \in DOMAIN history : history[p].kind = "message"}
SummaryPositions == {p \in DOMAIN history : history[p].kind = "summary"}
\* The summary items that directly precede position p, counted backwards.
RECURSIVE SummariesBefore(_)
SummariesBefore(p) ==
    IF p > 1 /\ history[p - 1].kind = "summary"
    THEN 1 + SummariesBefore(p - 1) ELSE 0

IsVisionCall == call.inlineImages > 0 \/ call.imageUrls > 0

\* C15: a vision turn (text with inline images or with image URLs) reaches
\* the agent as a single user turn, without any item of prior history; no
\* entry point takes an option by which the caller asks for history.
C15_VisionTurnAlone ==
    (call.pc = "done" /\ call.outcome = "run" /\ IsVisionCall)
        => (Len(call.input) = 1 /\ call.input[1].kind = "turn")

\* C19: a message whose text is empty or whitespace only is rejected on every
\* entry point (plain text, inline images, image URLs) and never reaches
\* runAgent.
C19_BlankNeverRuns ==
    (call.pc = "done" /\ trim(call.content) = << >>) => call.outcome # "run"

(***************************************************************************)
(* Properties of guardrail deflections and guardrail failures              *)
(***************************************************************************)
\* The tool names chat.controller.ts records for a response:
\* logToolCallsForMessage(aiMessage.id, response.metadata?.toolsUsed).
logToolCallsForMessage(resp) == IF resp.hasMetadata THEN resp.toolsUsed ELSE << >>
\* What streamMessage sends last for a finished turn.
streamMessage(t) ==
    CASE pc[t] = "returned" -> "done"
      [] pc[t] = "thrown" -> "error"
      [] OTHER -> "open"

\* C16 as stated: the response of a deflected turn has a toolsUsed list, and
\* the list is empty.
C16_ToolsUsedEmptyList ==
    \A t \in Turns :
        Deflected(t) => (response[t].hasMetadata /\ response[t].toolsUsed = << >>)
\* C16, amended: the response of a deflected turn carries no metadata, hence
\* no toolsUsed list at all; no tool was reported during the turn and the
\* caller records no tool name for it.
C16_NoToolsReported ==
    \A t \in Turns :
        Deflected(t) =>
            /\ ~response[t].hasMetadata
            /\ logToolCallsForMessage(response[t]) = << >>
            /\ \A k \in DOMAIN callbacks[t] : ~IsToolCallback(callbacks[t][k])
C16_Witness ==
    /\ Deflected(1)
    /\ guardOut[1].isFieldServiceQuestion = "no"
    /\ ~response[1].hasMetadata
    /\ response[1].content = playfulGuidance[2]

GuardFailed(t) ==
    guard[t] = "error" \/ guardOut[t].isFieldServiceQuestion = "missing"
Finished(t) == pc[t] \in {"returned", "thrown"}
Outcome(t) ==
    CASE pc[t] = "thrown" -> "failed"
      [] Deflected(t) -> "deflected"
      [] OTHER -> "allowed"

\* C17: whenever the guardrail's classification call itself fails (it throws,
\* or its result lacks the classification field), the turn ends in one and the
\* same way, which is either that the turn is allowed or that it is deflected.
C17_SingleFailureMode ==
    \A t1, t2 \in Turns :
        (GuardFailed(t1) /\ Finished(t1) /\ GuardFailed(t2) /\ Finished(t2)) =>
            /\ Outcome(t1) = Outcome(t2)
            /\ Outcome(t1) \in {"allowed", "deflected"}

\* C18: a turn the guardrail has tripped never throws and never invokes the
\* error callback; it returns a response, which the streaming caller answers
\* with its completion event.
C18_DeflectionIsSuccess ==
    \A t \in Turns :
        guard[t] = "tripped" =>
            /\ pc[t] # "thrown"
            /\ \A k \in DOMAIN callbacks[t] : ~IsErrorCallback(callbacks[t][k])
            /\ Finished(t) =>
                  /\ response[t] = GuardrailResponse(guardOut[t])
                  /\ streamMessage(t) = "done"
C18_Witness ==
    /\ Deflected(1)
    /\ streamMessage(1) = "done"
    /\ guardOut[1].isFieldServiceQuestion = "missing"
    /\ callbacks[1] = <<Thinking>>

(***************************************************************************)
(* Properties of the context entries                                       *)
(***************************************************************************)
CurrentOf(contextType) ==
    {id \in DOMAIN contexts :
        contexts[id].contextType = contextType /\ IsCurrent(contexts[id])}

\* C20: after any interleaving of upsert-by-type calls (upsertByType,
\* storeSummary, storeJobSnapshot) for one conversation, at most one current
\* (unexpired) entry of each type exists.
C20_AtMostOneCurrent ==
    \A ty \in UpsertTypes : Cardinality(CurrentOf(ty)) <= 1

(***************************************************************************)
(* Properties of soft-deleted messages                                     *)
(***************************************************************************)
\* C21: a soft-deleted message keeps its row, but no listing requested
\* without a status filter returns it, and no history that can be assembled
\* holds a turn of it.
C21_SoftDeletedHidden ==
    \A id \in DOMAIN stored :
        stored[id].status = "DELETED" =>
            /\ id \notin listByConversation
            /\ id \notin listMessages(NoFilter)
            /\ \A found \in FindManyDesc :
                  /\ \A k \in DOMAIN buildHistory(found, TRUE) :
                        buildHistory(found, TRUE)[k].of # id
                  /\ \A k \in DOMAIN buildHistoryMessagesOnly(found) :
                        buildHistoryMessagesOnly(found)[k].of # id

(***************************************************************************)
(* Properties of the chat request's writes                                 *)
(***************************************************************************)
\* C22: every message the chat request persists (the user message, the AI
\* reply) refreshes the conversation's updatedAt: after the write updatedAt is
\* not older than the message.
C22_MessageRefreshesUpdatedAt ==
    [][(call' # call /\ Len(stored') > Len(stored)) =>
          convUpdatedAt' >= stored'[Len(stored')].createdAt]_vars

(***************************************************************************)
(* Properties of the message-item fallback                                 *)
(***************************************************************************)
HadDelta(t) == \E k \in DOMAIN events[t] : IsChunk(events[t][k])
ArrivedMessageItem(t) ==
    /\ Len(events'[t]) = Len(events[t]) + 1
    /\ IsAssistantMessage(events'[t][Len(events'[t])])

\* C23: when an assistant message item arrives after a (non-empty) text delta
\* of the turn, the turn's text stays as it is; the item changes the text only
\* when no delta has arrived before it, and then the text becomes the item's.
C23_MessageItemOnlyFallback ==
    [][\A t \in Turns :
          ArrivedMessageItem(t) =>
              /\ HadDelta(t) => fullText'[Buf(t)] = fullText[Buf(t)]
              /\ fullText'[Buf(t)] # fullText[Buf(t)] =>
                    /\ ~HadDelta(t)
                    /\ fullText'[Buf(t)] = events'[t][Len(events'[t])].text]_vars
C23_Witness ==
    /\ Len(events[1]) = 2
    /\ IsChunk(events[1][1])
    /\ IsAssistantMessage(events[1][2]) /\ events[1][2].text # Empty
    /\ fullText[Buf(1)] = events[1][1].text

(***************************************************************************)
(* Image resolution and signing                                            *)
(***************************************************************************)
\* The resolution in `resolved` took the fallback path.
TookFallback == resolved.by # "none" /\ imageFiles = 0
\* The positions of the IMAGE messages the resolution scanned.
Scanned ==
    {ImageMessagesDesc[i] : i \in 1..Len(TakeLimit(ImageMessagesDesc, resolved.limit))}
KeyedIn(ms) == \E m \in ms : \E a \in 1..Len(imageMessages[m]) : HasKey(imageMessages[m][a])

C25_KeyedAttachmentsResigned ==
    (TookFallback /\ resolved.outcome = "ok") =>
        \A k \in 1..Len(resolved.images) :
            LET img == resolved.images[k]
                att == imageMessages[img.msg][img.att]
            IN  /\ HasKey(att) => img.url = "signed"
                /\ img.url = "stored" => ~HasKey(att)

\* C26: a signing call with a TTL that is zero, negative or non-finite hands
\* the configured default TTL to the provider, and the TTL handed over is
\* always a finite number above zero.
C26_EffectiveTtlPositive ==
    (signed.called /\ ~signed.thrown) =>
        /\ (signed.expiresInSeconds # Omitted
              /\ (~isFinite(signed.expiresInSeconds) \/ LeZero(signed.expiresInSeconds)))
           => signed.expiresIn = defaultTtl(signed.configuredTtl)
        /\ isFinite(signed.expiresIn)
        /\ signed.expiresIn.v > 0
C26_Witness ==
    /\ signed.called
    /\ ~signed.thrown
    /\ signed.expiresInSeconds = Num(-1)
    /\ signed.configuredTtl = Num(0)
    /\ signed.expiresIn = Num(FallbackTtl)

(***************************************************************************)
(* Voice sessions                                                          *)
(***************************************************************************)
\* The stop requests made for the session id once it was started.
StopsOfStarted == {k \in 1..Len(stopResponses) : stopResponses[k].started}

\* C27: after one or more stop requests for a started voice session the
\* session is disconnected and each of those stop requests succeeded.
C27_StopIdempotent ==
    StopsOfStarted # {} =>
        /\ ~voiceSessions.session.connected
        /\ ~voiceSessions.session.session
        /\ \A k \in StopsOfStarted : stopResponses[k].status = 200

\* C28: a failing turn leaves the voice session as it was, and a transcript
\* with text that arrives after a failed turn still starts a turn.
C28_FailureKeepsSession ==
    [][/\ (\E i \in 1..Len(voiceTurns) :
              voiceTurns[i].state = "running" /\ voiceTurns'[i].state = "failed")
          => voiceSession' = voiceSession
       /\ ((\E i \in 1..Len(voiceTurns) : voiceTurns[i].state = "failed")
              /\ Len(transcripts') > Len(transcripts)
              /\ trim(transcripts'[Len(transcripts')].text) # << >>)
          => Len(voiceTurns') = Len(voiceTurns) + 1]_vars
C28_Witness ==
    /\ Len(voiceTurns) = 2
    /\ voiceTurns[1].state = "failed"
    /\ voiceTurns[2].state = "spoken"
    /\ voiceTurns[2].of = 2
    /\ voiceSession.connected

\* The transcripts with text, by position.
RECURSIVE WithText(_)
WithText(n) ==
    IF n = 0 THEN << >>
    ELSE IF trim(transcripts[n].text) # << >> THEN Append(WithText(n - 1), n)
    ELSE WithText(n - 1)

\* C29: the turns started are exactly the transcripts with non-blank text,
\* one each and in order, whether partial or final, each with the
\* transcript's text and the session's conversation and user.
C29_OneTurnPerTranscript ==
    /\ Len(voiceTurns) = Len(WithText(Len(transcripts)))
    /\ \A k \in 1..Len(voiceTurns) :
          /\ voiceTurns[k].of = WithText(Len(transcripts))[k]
          /\ voiceTurns[k].text = transcripts[voiceTurns[k].of].text
          /\ voiceTurns[k].context = SessionContext
C29_Witness ==
    /\ Len(transcripts) = 2
    /\ transcripts[1] = [kind |-> "partial", text |-> <<"q">>]
    /\ transcripts[2] = [kind |-> "final", text |-> <<" ">>]
    /\ Len(voiceTurns) = 1
    /\ voiceTurns[1].of = 1

(***************************************************************************)
(* Persisting the AI response                                              *)
(***************************************************************************)
\* C30: on every path, a request whose AI response was generated but not
\* persisted has logged an error and reported failure to its caller.
C30_PersistFailureReported ==
    \A r \in AiRequests :
        (aiReqs[r].pc = "done" /\ aiReqs[r].generated /\ ~aiReqs[r].persisted) =>
            (aiReqs[r].logged = "error" /\ aiReqs[r].reported = "failed")

(***************************************************************************)
(* Image upload                                                            *)
(***************************************************************************)
\* C31: an upload whose storage upload, message write and image-record write
\* succeeded answers 201 with the stored image message, whatever became of
\* the embedding and of the analysis.
C31_EnrichmentNeverFailsUpload ==
    \A r \in UploadRequests :
        (uploads[r].s3 = "ok" /\ uploads[r].message = "ok" /\ uploads[r].imageFile = "ok"
            /\ uploads[r].pc = "done")
        => (uploads[r].status = 201 /\ uploads[r].returnsMessage)
C31_Witness ==
    /\ uploads[1].pc = "done"
    /\ uploads[1].embeddingStored = "failed"
    /\ uploads[1].aiMessage = "absent"
    /\ uploads[1].status = 201
    /\ uploads[2].pc = "done"
    /\ uploads[2].embedding = "null"
    /\ uploads[2].status = 201

(***************************************************************************)
(* Image summaries                                                         *)
(***************************************************************************)
\* The call in `summarized` met a failure: an unusable URL, a transport
\* error, no output, or output that is not the JSON text of an object.
SummaryFailure ==
    \/ summarized.imageUrl # "ok"
    \/ ~summarized.transportOk
    \/ summarized.output.kind # "object"

\* C32: a call of summarizeImageUrl that meets a failure returns null.
C32_FailureReturnsNull ==
    (summarized.called /\ SummaryFailure) => summarized.value = Null

\* C33: normalizing a summary that summarizeImageUrl returned gives the
\* same summary again.
C33_NormalizeIdempotent ==
    renormalized.done => renormalized.value = summarized.value
C33_Witness ==
    /\ renormalized.done
    /\ summarized.output.kind = "object"
    /\ summarized.output.fields.source = "text"
    /\ summarized.output.fields.summary = "null"
    /\ summarized.output.fields.objects = "text"
    /\ renormalized.value.fields.source = "text"
    /\ renormalized.value.fields.summary = ""
    /\ renormalized.value.fields.objects = "[]"

(***************************************************************************)
(* The new user message in the agent's input                               *)
(***************************************************************************)
\* The items of an agent input that carry the message sendMessage has just
\* stored: the turn appended by the entry point, and the history item made
\* from the stored row.
NewMessageItems(input) ==
    {k \in DOMAIN input :
        \/ input[k].kind = "turn"
        \/ input[k].kind = "message" /\ input[k].of = call.messageId}

\* C34: when sendMessage hands the agent its input, the input holds the new
\* user message exactly once.
C34_NewMessageOnce ==
    [][(call.pc = "saved" /\ call'.pc = "done" /\ call'.outcome = "run") =>
          Cardinality(NewMessageItems(call'.input)) = 1]_vars

(***************************************************************************)
(* The chat stream                                                         *)
(***************************************************************************)
Terminals == {k \in DOMAIN Written : Written[k].type \in {"done", "error"}}

\* C35: an ended chat stream that wrote events wrote exactly one terminal
\* event (done or error), and wrote it last.
C35_OneTerminalEvent ==
    (sse.pc = "ended" /\ Written # << >>) =>
        (Cardinality(Terminals) = 1 /\ Len(Written) \in Terminals)

\* C36: an ended chat stream has no heartbeat timer, and no heartbeat is
\* written to an ended response.
C36_HeartbeatCancelled ==
    /\ sse.pc = "ended" => ~sse.timer
    /\ sse.lateHeartbeats = 0

\* The chunk events of the stream, concatenated in order.
RECURSIVE Concat(_)
Concat(es) ==
    IF es = << >> THEN << >>
    ELSE (IF Head(es).type = "chunk" THEN Head(es).content ELSE << >>) \o Concat(Tail(es))
Chunks == {k \in DOMAIN Written : Written[k].type = "chunk"}
\* The stream ended with a done event after the agent's answer was saved.
StreamSucceeded ==
    sse.pc = "ended" /\ sse.tail # << >> /\ sse.tail[1].type = "done" /\ pc[1] = "returned"
\* An assistant message item with text arrived before the first delta with text.
MessageBeforeChunk ==
    \E i \in DOMAIN events[1] :
        /\ IsAssistantMessage(events[1][i]) /\ events[1][i].text # Empty
        /\ \A j \in 1..(i - 1) : ~IsChunk(events[1][j])

\* C40 (as stated): in a successful stream with at least one chunk the
\* content of the done event is the concatenation of the chunks.
C40_DoneEqualsChunks ==
    (StreamSucceeded /\ Chunks # {}) => sse.tail[1].content = Concat(Written)

\* The text the buffer holds before the first delta with text: the text of
\* the first assistant message item with text when it came before every
\* delta with text, otherwise nothing.
BeforeFirstChunk ==
    IF MessageBeforeChunk
    THEN events[1][CHOOSE i \in DOMAIN events[1] :
                       /\ IsAssistantMessage(events[1][i]) /\ events[1][i].text # Empty
                       /\ \A j \in 1..(i - 1) :
                              ~IsChunk(events[1][j])
                              /\ ~(IsAssistantMessage(events[1][j]) /\ events[1][j].text # Empty)].text
    ELSE Empty

\* C40 (amended): in a successful stream with at least one chunk the content
\* of the done event is the stream's final output when that is a non-empty
\* string; otherwise it is the text of an assistant message item that came
\* before the first chunk (if any) followed by the concatenation of the chunks.
C40_DoneIsFinalOutputOrChunks ==
    (StreamSucceeded /\ Chunks # {}) =>
        IF finalOutput[1].isString /\ finalOutput[1].text # Empty
        THEN sse.tail[1].content = finalOutput[1].text
        ELSE sse.tail[1].content = BeforeFirstChunk \o Concat(Written)
C40_Witness ==
    /\ StreamSucceeded
    /\ Len(events[1]) = 2
    /\ IsChunk(events[1][1]) /\ IsChunk(events[1][2])
    /\ finalOutput[1] = FinalOutput(TRUE, Empty)
    /\ sse.tail[1].content = <<"a", "b">>

(***************************************************************************)
(* getOrCreateConversation                                                 *)
(***************************************************************************)
\* Request r, a getOrCreateConversation, completes in this step.
ServiceCompletes(r) ==
    /\ req[r].kind = "serviceGetOrCreate"
    /\ req[r].pc \notin {"done", "failed"}
    /\ req'[r].pc \in {"done", "failed"}

\* C37: every getOrCreateConversation(user, job) that completes returns an
\* ACTIVE conversation of the pair; it never fails, whatever the status of the
\* pair's earlier conversation.
C37_ReturnsActive ==
    [][\A r \in Requests :
          ServiceCompletes(r) =>
              /\ req'[r].pc = "done"
              /\ req'[r].result \in DOMAIN convs'
              /\ convs'[req'[r].result].status = "ACTIVE"
              /\ convs'[req'[r].result].userId = req[r].userId
              /\ convs'[req'[r].result].jobId = req[r].jobId]_vars

(***************************************************************************)
(* The agent singleton                                                     *)
(***************************************************************************)
\* C38: every call of getClaraAgent that has returned an agent returned one
\* whose init() completed successfully.
C38_OnlyInitialisedAgents ==
    \A c \in GetCalls :
        getCalls[c].pc = "done" =>
            /\ getCalls[c].result \in DOMAIN inits
            /\ inits[getCalls[c].result] = "initialised"
\* The voice session is stopped: stop() was the last call on it.
VoiceStopped == ~voiceSession.session

\* C39: while the voice session is stopped no text is sent into the
\* transport, and a turn that ends with content while the session is stopped
\* completes unsent, not failed.
C39_StoppedSendsNothing ==
    [][VoiceStopped =>
          /\ spoken' = spoken
          /\ \A i \in 1..Len(voiceTurns) :
                (voiceTurns[i].state = "running" /\ voiceTurns'[i].state # "running")
                    => voiceTurns'[i].state \in {"unsent", "silent", "failed"}]_vars
\* A turn was in flight when stop() was called, the pending connect settled
\* after the stop, and the turn then completed with content, unsent.
C39_Witness ==
    /\ VoiceStopped
    /\ voiceSession.connected
    /\ Len(voiceTurns) = 1
    /\ voiceTurns[1].state = "unsent"
    /\ spoken = << >>

====
